---- MODULE Spec2Model ----
(***************************************************************************)
(* The in-memory session store of the travel planner backend               *)
(* (backend/app/services/session_manager.py) with its background reaper,   *)
(* driven by the request handlers that hold Session objects.               *)
(*                                                                         *)
(* Python objects are modelled by reference: objs is the heap of every     *)
(* Session object ever constructed (index = reference), _sessions is the   *)
(* dict of the SessionManager (session id -> reference).  The event loop   *)
(* is single threaded, so one action is one stretch of code between two    *)
(* await points.                                                           *)
(***************************************************************************)
EXTENDS Integers, Sequences, FiniteSets, TLC

(* ------------------------------ bounds -------------------------------- *)

\* Session objects constructed in one run.
MaxSessions == 2
\* Last instant of the clock (datetime.utcnow() in ticks).
MaxTime == 2
\* Items (videos, places, chat messages) the handlers append in one run.
MaxItems == 1
\* Reaper tasks created in one run.
MaxTasks == 2
\* Exceptions injected into reaper cycles (LiveSpec only).
MaxFaults == 1
\* Request handlers (ingest, chat) started in one run.
MaxRequests == 2
\* Ingest requests among them.
MaxIngests == 1
\* URLs in one ingest request.
MaxUrls == 2
\* Videos in the session the chat tools are tried on.
MaxVideos == 2
\* Largest limit passed to search_places.
MaxLimit == 3
\* Places in one result of the structured LLM call.
MaxPlaces == 2
\* Tool calls in one response of the chat model.
MaxToolCalls == 2
\* Videos in the session a chat turn is tried on.
MaxChatVideos == 3
\* Exchanges in the chat history a chat turn is tried on.
MaxExchanges == 6
\* settings.session_ttl_seconds, in clock ticks (configurable, default 3600 s).
session_ttl_seconds == 1

(* ------------------------------ state --------------------------------- *)

VARIABLES
    now,            \* the wall clock read by datetime.utcnow()
    objs,           \* heap: sequence of Session objects, index = reference
    _sessions,      \* SessionManager._sessions: session id -> reference
    _cleanup_task,  \* SessionManager._cleanup_task: None or a task
    tasks,          \* the reaper tasks created so far, by state
    pc,             \* where the lifespan caller of start()/stop() stands
    faults,         \* exceptions injected into reaper cycles so far
    ret,            \* the last operation: what was called and what it gave
    reqs            \* the request handlers started so far, each with its locals

vars == <<now, objs, _sessions, _cleanup_task, tasks, pc, faults, ret, reqs>>

\* Python's None (also the falsy session id of a request without one).
None == 0

\* A session id no Session ever had ("nonexistent-id" in the unit tests).
nonexistent_id == MaxSessions + 1

\* References to the Session objects constructed so far.
Refs == 1..Len(objs)

\* The session ids a request can carry: one the server handed out earlier,
\* or one it never generated.
RequestIds == {objs[r].session_id : r \in Refs} \cup {nonexistent_id}

\* InvalidSessionError, by its message.
InvalidSessionError == {"Session not found", "Session expired"}

(* ---------------------------- data model ------------------------------ *)

\* The fixtures of the unit tests, as the items handlers append.
sample_video ==
    [video_id |-> "test123", title |-> "Test Video",
     description |-> "A test video", duration_seconds |-> 600,
     transcript |-> "This is a test transcript",
     url |-> "https://youtube.com/watch?v=test123"]

sample_place ==
    [name |-> "Test Restaurant", type |-> "restaurant",
     description |-> "A great place to eat", video_id |-> "test123",
     mentioned_context |-> "The host loved this place"]

sample_message ==
    [role |-> "user", content |-> "hello", places_referenced |-> <<>>]

\* Mutant: the default id is computed once, when the class is defined.
uuid4_once(H) == 1

\* uuid4(): a value no earlier call returned.  The ids handed out so far are
\* exactly 1..Len(H), one per constructed Session.
uuid4(H) == Len(H) + 1

\* Session(): fresh id, empty collections, both timestamps = utcnow().
Session(H, t) ==
    [session_id |-> uuid4(H), videos |-> <<>>, places |-> <<>>,
     chat_history |-> <<>>, created_at |-> t, last_activity |-> t]

(* ------------------------------ dict ---------------------------------- *)

\* d[k] = v
dict_set(d, k, v) == [x \in DOMAIN d \cup {k} |-> IF x = k THEN v ELSE d[x]]

\* del d[k] raises KeyError when k is not a key
del_raises(d, k) == k \notin DOMAIN d

\* del d[k]
dict_del(d, k) == [x \in DOMAIN d \ {k} |-> d[x]]

\* What a store operation gives: the dict and heap after it, the exception
\* it raised ("none" when it returned) and the value it returned.
Result(S, H, raised, val) ==
    [sessions |-> S, objs |-> H, raised |-> raised, val |-> val]

(* ------------------------- SessionManager ----------------------------- *)

\* Mutant: a session idle for exactly the TTL counts as expired.
get_expired_inclusive(session, t) ==
    t - session.last_activity >= session_ttl_seconds

\* get_session's expiry test (line 100).
get_expired(session, t) == t - session.last_activity > session_ttl_seconds

\* Mutant: the reaper evicts a session idle for exactly the TTL.
reaper_expired_inclusive(session, t) ==
    t - session.last_activity >= session_ttl_seconds

\* The reaper's expiry test (line 51).
reaper_expired(session, t) == t - session.last_activity > session_ttl_seconds

create_session(S, H, t) ==
    LET session == Session(H, t)
        r == Len(H) + 1
    IN  Result(dict_set(S, session.session_id, r), Append(H, session), "none", r)

\* Mutant: a successful get refreshes last_activity (sliding expiry).
get_session_touch(S, H, session_id, t) ==
    IF session_id \notin DOMAIN S
    THEN Result(S, H, "Session not found", None)
    ELSE IF get_expired(H[S[session_id]], t)
         THEN Result(dict_del(S, session_id), H, "Session expired", None)
         ELSE Result(S, [H EXCEPT ![S[session_id]].last_activity = t], "none",
                     S[session_id])

get_session(S, H, session_id, t) ==
    IF session_id \notin DOMAIN S
    THEN Result(S, H, "Session not found", None)
    ELSE IF get_expired(H[S[session_id]], t)
         THEN Result(dict_del(S, session_id), H,
                     IF del_raises(S, session_id) THEN "KeyError"
                     ELSE "Session expired", None)
         ELSE Result(S, H, "none", S[session_id])

\* Mutant: the path of a present id goes through get_session's TTL check.
get_or_create_session_ttl(S, H, session_id, t) ==
    IF session_id = None
    THEN create_session(S, H, t)
    ELSE IF session_id \notin DOMAIN S
         THEN create_session(S, H, t)
         ELSE get_session(S, H, session_id, t)

get_or_create_session(S, H, session_id, t) ==
    IF session_id = None
    THEN create_session(S, H, t)
    ELSE IF session_id \notin DOMAIN S
         THEN create_session(S, H, t)
         ELSE Result(S, H, "none", S[session_id])

\* Mutant: update refreshes the timestamp and stores nothing.
update_session_refresh_only(S, H, r, t) ==
    Result(S, [H EXCEPT ![r].last_activity = t], "none", None)

\* Mutant: update refreshes only a session that is still a key of the dict.
update_session_if_present(S, H, r, t) ==
    IF H[r].session_id \in DOMAIN S
    THEN Result(S, [H EXCEPT ![r].last_activity = t], "none", None)
    ELSE Result(S, H, "none", None)

update_session(S, H, r, t) ==
    LET H2 == [H EXCEPT ![r].last_activity = t]
    IN  Result(dict_set(S, H2[r].session_id, r), H2, "none", None)

\* Mutant: delete pops the key with a default and never raises.
delete_session_quiet(S, H, session_id) ==
    Result(dict_del(S, session_id), H, "none", None)

delete_session(S, H, session_id) ==
    IF session_id \notin DOMAIN S
    THEN Result(S, H, "Session not found", None)
    ELSE Result(dict_del(S, session_id), H,
                IF del_raises(S, session_id) THEN "KeyError" ELSE "none", None)

get_session_count(S) == Cardinality(DOMAIN S)

\* Mutant: the cycle collects from every Session object it has seen, not
\* from the dict as it is now.
expired_ids_stale(S, H, t) ==
    {H[r].session_id : r \in {x \in 1..Len(H) : reaper_expired(H[x], t)}}

\* The ids one reaper cycle collects (lines 48-52).
expired_ids(S, H, t) == {id \in DOMAIN S : reaper_expired(H[S[id]], t)}

\* One reaper cycle after the sleep (lines 46-59): collect, then delete.
cleanup_cycle(S, H, t) ==
    LET ids == expired_ids(S, H, t)
    IN  Result([id \in DOMAIN S \ ids |-> S[id]], H,
               IF \E id \in ids : del_raises(S, id) THEN "KeyError" ELSE "none",
               Cardinality(ids))

(* ----------------------------- actions -------------------------------- *)

Ret(op, arg, raised, val) ==
    [op |-> op, arg |-> arg, raised |-> raised, val |-> val]

Init ==
    /\ now = 0
    /\ objs = <<>>
    /\ _sessions = <<>>
    /\ _cleanup_task = None
    /\ tasks = <<>>
    /\ pc = "idle"
    /\ faults = 0
    /\ ret = Ret("init", None, "none", None)
    /\ reqs = <<>>

\* A store operation took effect: res is what the operator gave.
Apply(op, arg, res) ==
    /\ _sessions' = res.sessions
    /\ objs' = res.objs
    /\ ret' = Ret(op, arg, res.raised, res.val)
    /\ UNCHANGED <<now, _cleanup_task, tasks, pc, faults, reqs>>

\* Time passes.
Tick ==
    /\ now < MaxTime
    /\ now' = now + 1
    /\ ret' = Ret("tick", None, "none", None)
    /\ UNCHANGED <<objs, _sessions, _cleanup_task, tasks, pc, faults, reqs>>

Create ==
    /\ Len(objs) < MaxSessions
    /\ Apply("create", None, create_session(_sessions, objs, now))

Get(id) == Apply("get", id, get_session(_sessions, objs, id, now))

GetOrCreate(id) ==
    /\ id \in DOMAIN _sessions \/ Len(objs) < MaxSessions
    /\ Apply("get_or_create", id, get_or_create_session(_sessions, objs, id, now))

Update(r) == Apply("update", r, update_session(_sessions, objs, r, now))

Delete(id) == Apply("delete", id, delete_session(_sessions, objs, id))

Count ==
    /\ ret' = Ret("count", None, "none", get_session_count(_sessions))
    /\ UNCHANGED <<now, objs, _sessions, _cleanup_task, tasks, pc, faults, reqs>>

\* The items held by the sessions of heap H.
RECURSIVE Items(_)
Items(H) ==
    IF H = <<>> THEN 0
    ELSE Len(Head(H).videos) + Len(Head(H).places) + Len(Head(H).chat_history)
         + Items(Tail(H))

\* A request handler mutates the Session object it holds: ingest appends a
\* video or a place, chat appends a message.
AppendVideo(r) ==
    /\ Items(objs) < MaxItems
    /\ objs' = [objs EXCEPT ![r].videos = Append(@, sample_video)]
    /\ ret' = Ret("append", r, "none", None)
    /\ UNCHANGED <<now, _sessions, _cleanup_task, tasks, pc, faults, reqs>>

AppendPlace(r) ==
    /\ Items(objs) < MaxItems
    /\ objs' = [objs EXCEPT ![r].places = Append(@, sample_place)]
    /\ ret' = Ret("append", r, "none", None)
    /\ UNCHANGED <<now, _sessions, _cleanup_task, tasks, pc, faults, reqs>>

AppendMessage(r) ==
    /\ Items(objs) < MaxItems
    /\ objs' = [objs EXCEPT ![r].chat_history = Append(@, sample_message)]
    /\ ret' = Ret("append", r, "none", None)
    /\ UNCHANGED <<now, _sessions, _cleanup_task, tasks, pc, faults, reqs>>

(* --------------------------- reaper task ------------------------------ *)

\* Mutant: start() creates a task whatever the handle is.
start_unguarded(handle, T) ==
    [handle |-> Len(T) + 1, tasks |-> Append(T, "sleeping")]

\* start(): create the task unless the handle is set.
start(handle, T) ==
    IF handle = None
    THEN [handle |-> Len(T) + 1, tasks |-> Append(T, "sleeping")]
    ELSE [handle |-> handle, tasks |-> T]

\* Task.cancel(): a task that has not finished gets CancelledError at its
\* await; a finished task is left as it is.
cancel(T, k) == [T EXCEPT ![k] = IF @ = "done" THEN "done" ELSE "cancelling"]

Start ==
    /\ pc = "idle"
    /\ _cleanup_task # None \/ Len(tasks) < MaxTasks
    /\ LET s == start(_cleanup_task, tasks)
       IN  /\ _cleanup_task' = s.handle
           /\ tasks' = s.tasks
           /\ ret' = Ret("start", None, "none", Len(s.tasks) - Len(tasks))
    /\ UNCHANGED <<now, objs, _sessions, pc, faults, reqs>>

\* stop() up to its await: nothing without a task, else cancel it and wait
\* for it.
stop(handle, T) ==
    IF handle # None
    THEN [tasks |-> cancel(T, handle), pc |-> "stopping"]
    ELSE [tasks |-> T, pc |-> "idle"]

StopCancel ==
    /\ pc = "idle"
    /\ LET s == stop(_cleanup_task, tasks)
       IN  /\ tasks' = s.tasks
           /\ pc' = s.pc
           /\ ret' = IF s.pc = "stopping"
                     THEN Ret("stop_cancel", None, "none", None)
                     ELSE Ret("stop", None, "none", 0)
    /\ UNCHANGED <<now, objs, _sessions, _cleanup_task, faults, reqs>>

\* stop() after its await: the task has finished, the handle is cleared.
StopReturn ==
    /\ pc = "stopping"
    /\ tasks[_cleanup_task] = "done"
    /\ _cleanup_task' = None
    /\ pc' = "idle"
    /\ ret' = Ret("stop", None, "none", 1)
    /\ UNCHANGED <<now, objs, _sessions, tasks, faults, reqs>>

\* The reaper gets CancelledError at its sleep and leaves the loop.
ReaperCancelled(k) ==
    /\ tasks[k] = "cancelling"
    /\ tasks' = [tasks EXCEPT ![k] = "done"]
    /\ ret' = Ret("reaper_cancelled", k, "none", None)
    /\ UNCHANGED <<now, objs, _sessions, _cleanup_task, pc, faults, reqs>>

\* The reaper wakes from its sleep and runs one cycle, then sleeps again.
ReaperCycle(k) ==
    /\ tasks[k] = "sleeping"
    /\ LET res == cleanup_cycle(_sessions, objs, now)
       IN  /\ _sessions' = res.sessions
           /\ objs' = res.objs
           /\ ret' = Ret("reaper", k, res.raised, res.val)
    /\ UNCHANGED <<now, _cleanup_task, tasks, pc, faults, reqs>>

\* Mutant: an exception in a cycle ends the loop.
after_exception_break(T, k) == [T EXCEPT ![k] = "done"]

\* What the task does after an exception in a cycle (lines 63-64): log it
\* and go round the loop again.
after_exception(T, k) == T

\* A cycle in which some statement raised before anything was evicted.
ReaperCycleRaises(k) ==
    /\ tasks[k] = "sleeping"
    /\ faults < MaxFaults
    /\ faults' = faults + 1
    /\ tasks' = after_exception(tasks, k)
    /\ ret' = Ret("reaper", k, "Exception", 0)
    /\ UNCHANGED <<now, objs, _sessions, _cleanup_task, pc, reqs>>

ReaperStep == \E k \in 1..Len(tasks) : ReaperCycle(k)

Next ==
    \/ Tick
    \/ Create
    \/ \E id \in RequestIds : Get(id)
    \/ \E id \in RequestIds \cup {None} : GetOrCreate(id)
    \/ \E r \in Refs : Update(r)
    \/ \E id \in RequestIds : Delete(id)
    \/ Count
    \/ \E r \in Refs : AppendVideo(r)
    \/ \E r \in Refs : AppendPlace(r)
    \/ \E r \in Refs : AppendMessage(r)
    \/ Start
    \/ StopCancel
    \/ StopReturn
    \/ \E k \in 1..Len(tasks) : ReaperCancelled(k)
    \/ ReaperStep

Spec == Init /\ [][Next]_vars

\* The same program with an exception injected into at most MaxFaults reaper
\* cycles, under the fairness the event loop gives: time passes, and a
\* sleeping reaper is woken.
NextLive == Next \/ \E k \in 1..Len(tasks) : ReaperCycleRaises(k)

LiveSpec == Init /\ [][NextLive]_vars /\ WF_vars(Tick) /\ WF_vars(ReaperStep)

(* ------------------------- text and models ---------------------------- *)

\* Text that the code inspects character by character is a sequence of
\* characters; other text is a TLA+ string.
upper_letters ==
    <<"A", "B", "C", "D", "E", "F", "G", "H", "I", "J", "K", "L", "M",
      "N", "O", "P", "Q", "R", "S", "T", "U", "V", "W", "X", "Y", "Z">>

lower_letters ==
    <<"a", "b", "c", "d", "e", "f", "g", "h", "i", "j", "k", "l", "m",
      "n", "o", "p", "q", "r", "s", "t", "u", "v", "w", "x", "y", "z">>

\* str.lower(), letter by letter.
lower_char(c) ==
    IF \E i \in 1..26 : upper_letters[i] = c
    THEN lower_letters[CHOOSE i \in 1..26 : upper_letters[i] = c]
    ELSE c

lower(s) == [i \in 1..Len(s) |-> lower_char(s[i])]

\* Python's "sub in s" on text.
contains(sub, s) ==
    \E i \in 0..(Len(s) - Len(sub)) : SubSeq(s, i + 1, i + Len(sub)) = sub

\* Python's s[:limit] on a list.
slice_to(s, limit) ==
    IF limit >= 0
    THEN SubSeq(s, 1, IF limit < Len(s) THEN limit ELSE Len(s))
    ELSE SubSeq(s, 1, IF Len(s) + limit > 0 THEN Len(s) + limit ELSE 0)

\* Python's None in a field that otherwise holds a TLA+ string.
NoneStr == "None"

\* The values of the PlaceType enumeration.
RESTAURANT == <<"r", "e", "s", "t", "a", "u", "r", "a", "n", "t">>
ATTRACTION == <<"a", "t", "t", "r", "a", "c", "t", "i", "o", "n">>
HOTEL == <<"h", "o", "t", "e", "l">>
ACTIVITY == <<"a", "c", "t", "i", "v", "i", "t", "y">>
COFFEE_SHOP == <<"c", "o", "f", "f", "e", "e", "_", "s", "h", "o", "p">>
SHOPPING == <<"s", "h", "o", "p", "p", "i", "n", "g">>
\* PlaceType.OTHER (OTHER is a reserved word of TLA+).
OTHER_PLACE == <<"o", "t", "h", "e", "r">>

PlaceType ==
    {RESTAURANT, ATTRACTION, HOTEL, ACTIVITY, COFFEE_SHOP, SHOPPING, OTHER_PLACE}

\* A Place that does not take the id of the video it was extracted from.
Place_unowned(id, p, video_id) ==
    [id |-> id, name |-> p.name, type |-> p.type,
     description |-> p.description, video_id |-> "unknown",
     timestamp_seconds |-> p.timestamp_seconds,
     mentioned_context |-> p.mentioned_context,
     address |-> p.address, neighborhood |-> p.neighborhood]

\* Place(...): the fields given, with a generated id.  Validation rejects a
\* type outside the enumeration.
Place(id, p, video_id) ==
    [id |-> id, name |-> p.name, type |-> p.type,
     description |-> p.description, video_id |-> video_id,
     timestamp_seconds |-> p.timestamp_seconds,
     mentioned_context |-> p.mentioned_context,
     address |-> p.address, neighborhood |-> p.neighborhood]

\* Video(...) as process_video builds it: placeholder title, no summary.
Video(video_id, transcript, url) ==
    [video_id |-> video_id, title |-> "Video " \o video_id,
     description |-> NoneStr, summary |-> NoneStr, duration_seconds |-> 600,
     transcript |-> transcript, url |-> url, places_count |-> None]

\* The URLs of the requests, each the sequence of its parts.
url_watch == <<"https://www.", "youtube.com/watch?v=", "test123">>
url_short == <<"https://", "youtu.be/", "abc456", "?", "t=5">>
url_gone == <<"https://", "youtu.be/", "gone404">>
url_bad == <<"not a url">>

ChatMessage(role, content, places_referenced) ==
    [role |-> role, content |-> content, places_referenced |-> places_referenced]

(* --------------------------- extraction ------------------------------- *)

\* What extract_places_from_video gives: the exception it raised ("none" when
\* it returned) with its message, the value it returned (a sequence: empty
\* for no value, else the one PlaceExtractionResult), the structured LLM
\* calls it made and the Video it was given, as it is afterwards.
Extraction(raised, error_msg, val, calls, video) ==
    [raised |-> raised, error_msg |-> error_msg, val |-> val, calls |-> calls,
     video |-> video]

\* The message of the ExtractionError (line 183).
extraction_error_msg(video, cause) ==
    <<"Failed to extract places from video ", video.video_id, ": ", cause>>

\* Lines 149-180 on the LLM's result: title and summary with their defaults,
\* one Place per extracted place.  ids are the uuid4 values of the new Places.
PlaceExtractionResult(video, result, n) ==
    [places |-> [i \in 1..Len(result.places) |->
                    Place(n + i, result.places[i], video.video_id)],
     suggested_title |-> IF result.suggested_title = "" 
                         THEN "Video " \o video.video_id
                         ELSE result.suggested_title,
     suggested_summary |-> IF result.suggested_summary \in {"", NoneStr}
                           THEN "" ELSE result.suggested_summary]

\* Mutant: a failed structured call is tried once more.
extract_places_from_video_retry(video, attempts, n) ==
    LET k == IF attempts[1].raised # "none" THEN 2 ELSE 1
        llm == attempts[k]
    IN  IF llm.raised # "none"
        THEN Extraction("ExtractionError", extraction_error_msg(video, llm.raised),
                        <<>>, k, video)
        ELSE IF \E i \in 1..Len(llm.result[1].places) :
                    llm.result[1].places[i].type \notin PlaceType
             THEN Extraction("ExtractionError",
                             extraction_error_msg(video, "ValidationError"),
                             <<>>, k, video)
             ELSE Extraction("none", <<>>,
                             <<PlaceExtractionResult(video, llm.result[1], n)>>, k, video)

\* Mutant: every new Place gets the same id.
extract_places_from_video_same_id(video, attempts, n) ==
    LET llm == attempts[1]
    IN  IF llm.raised # "none"
        THEN Extraction("ExtractionError", extraction_error_msg(video, llm.raised),
                        <<>>, 1, video)
        ELSE IF \E i \in 1..Len(llm.result[1].places) :
                    llm.result[1].places[i].type \notin PlaceType
             THEN Extraction("ExtractionError",
                             extraction_error_msg(video, "ValidationError"),
                             <<>>, 1, video)
             ELSE Extraction("none", <<>>,
                             <<[PlaceExtractionResult(video, llm.result[1], n)
                                  EXCEPT !.places = [i \in DOMAIN @ |->
                                      [@[i] EXCEPT !.id = n + 1]]]>>, 1, video)

\* extract_places_from_video(video, llm_client) (lines 128-185).  attempts
\* are the outcomes the structured LLM call would give, call after call: an
\* exception, or a result (a sequence of one); n is the number of Place ids generated before.
extract_places_from_video(video, attempts, n) ==
    LET llm == attempts[1]
    IN  IF llm.raised # "none"
        THEN Extraction("ExtractionError", extraction_error_msg(video, llm.raised),
                        <<>>, 1, video)
        ELSE IF \E i \in 1..Len(llm.result[1].places) :
                    llm.result[1].places[i].type \notin PlaceType
             THEN Extraction("ExtractionError",
                             extraction_error_msg(video, "ValidationError"),
                             <<>>, 1, video)
             ELSE Extraction("none", <<>>,
                             <<PlaceExtractionResult(video, llm.result[1], n)>>, 1, video)

(* ---------------------------- chat tools ------------------------------ *)

\* The dict search_places returns for a place (lines 59-69).
place_dict(p) ==
    [name |-> p.name, type |-> p.type, description |-> p.description,
     mentioned_context |-> p.mentioned_context, video_id |-> p.video_id,
     timestamp_seconds |-> p.timestamp_seconds]

\* Python's list comprehension [x for x in s if Test(x)].
RECURSIVE filter(_, _)
filter(s, keep) ==
    IF s = <<>> THEN <<>>
    ELSE IF Head(s) \in keep THEN <<Head(s)>> \o filter(Tail(s), keep)
         ELSE filter(Tail(s), keep)

\* Mutant: a place_type that names no enumeration value matches no place.
search_places_strict(places, query, place_type, limit) ==
    LET by_type ==
            IF place_type # <<>>
            THEN filter(places, {p \in {places[i] : i \in 1..Len(places)} :
                                    p.type = lower(place_type)})
            ELSE places
        by_query ==
            IF query # <<>>
            THEN filter(by_type,
                        {p \in {places[i] : i \in 1..Len(places)} :
                            \/ contains(lower(query), lower(p.name))
                            \/ contains(lower(query), lower(p.description))
                            \/ contains(lower(query), lower(p.mentioned_context))})
            ELSE by_type
        results == slice_to(by_query, limit)
    IN  [places |-> places,
         val |-> [i \in 1..Len(results) |-> place_dict(results[i])]]

\* search_places(query, place_type, limit) over the list the tool closes over
\* (lines 34-69): the list afterwards and the value returned.
search_places(places, query, place_type, limit) ==
    LET by_type ==
            IF place_type # <<>> /\ lower(place_type) \in PlaceType
            THEN filter(places, {p \in {places[i] : i \in 1..Len(places)} :
                                    p.type = lower(place_type)})
            ELSE places
        by_query ==
            IF query # <<>>
            THEN filter(by_type,
                        {p \in {places[i] : i \in 1..Len(places)} :
                            \/ contains(lower(query), lower(p.name))
                            \/ contains(lower(query), lower(p.description))
                            \/ contains(lower(query), lower(p.mentioned_context))})
            ELSE by_type
        results == slice_to(by_query, limit)
    IN  [places |-> places,
         val |-> [i \in 1..Len(results) |-> place_dict(results[i])]]

\* Mutant: the last video with the id is taken.
get_video_transcript_last(videos, video_id) ==
    LET found == {i \in 1..Len(videos) : videos[i].video_id = video_id}
    IN  IF found # {}
        THEN LET video == videos[CHOOSE i \in found : \A j \in found : j <= i]
             IN  [videos |-> videos, raised |-> "none",
                  val |-> "Transcript for '" \o video.title \o "':\n\n"
                          \o video.transcript]
        ELSE [videos |-> videos, raised |-> "none",
              val |-> "Video " \o video_id \o " not found in session."]

\* get_video_transcript(video_id) over the session's videos (lines 88-93).
get_video_transcript(videos, video_id) ==
    LET found == {i \in 1..Len(videos) : videos[i].video_id = video_id}
    IN  IF found # {}
        THEN LET video == videos[CHOOSE i \in found : \A j \in found : i <= j]
             IN  [videos |-> videos, raised |-> "none",
                  val |-> "Transcript for '" \o video.title \o "':\n\n"
                          \o video.transcript]
        ELSE [videos |-> videos, raised |-> "none",
              val |-> "Video " \o video_id \o " not found in session."]

(* ----------------- the extraction and the tools, tried ---------------- *)

\* Text of the places, character by character.
Le_Bistro == <<"L", "e", " ", "B", "i", "s", "t", "r", "o">>
Eiffel_Tower == <<"E", "i", "f", "f", "e", "l">>
Blue_Bottle == <<"B", "l", "u", "e", " ", "B", "o", "t", "t", "l", "e">>
cafe == <<"c", "a", "f", "e">>

\* Places as the structured LLM call gives them (ExtractedPlace); the last
\* one carries a category outside the enumeration, as an unvalidated result
\* can.
ExtractedPlaces ==
    <<[name |-> Le_Bistro, type |-> RESTAURANT,
       description |-> <<"F", "r", "e", "n", "c", "h">>,
       timestamp_seconds |-> 120,
       mentioned_context |-> <<"T", "h", "e", " ", "B", "e", "s", "t">>,
       address |-> "12 Rue Cler", neighborhood |-> NoneStr],
      [name |-> Eiffel_Tower, type |-> ATTRACTION,
       description |-> <<"t", "o", "w", "e", "r">>,
       timestamp_seconds |-> None,
       mentioned_context |-> <<"b", "l", "u", "e", " ", "s", "k", "y">>,
       address |-> NoneStr, neighborhood |-> "7th"],
      [name |-> Blue_Bottle, type |-> COFFEE_SHOP,
       description |-> <<"C", "a", "f", "e">>,
       timestamp_seconds |-> None,
       mentioned_context |-> <<"b", "e", "s", "t">>,
       address |-> NoneStr, neighborhood |-> NoneStr],
      [name |-> <<"C", "a", "f", "e", " ", "X">>, type |-> cafe,
       description |-> <<"b", "a", "r">>,
       timestamp_seconds |-> None,
       mentioned_context |-> <<"o", "k">>,
       address |-> NoneStr, neighborhood |-> NoneStr]>>

\* Sequences over set S of length at most n.
SeqUpTo(S, n) == UNION {[1..k -> S] : k \in 0..n}

\* What one structured LLM call can give: an exception, or a result.
LLMOutcomes ==
    {[raised |-> "LLMProviderError", result |-> <<>>]} \cup
    {[raised |-> "none",
      result |-> <<[suggested_title |-> t, suggested_summary |-> m,
                    places |-> [i \in DOMAIN ps |-> ExtractedPlaces[ps[i]]]]>>] :
        t \in {"", "Paris Food Tour"},
        m \in {"", NoneStr, "A delightful tour of Parisian cuisine."},
        ps \in SeqUpTo({1, 2, 4}, MaxPlaces)}

\* What a retried structured LLM call would give.
LLMRetryOutcomes ==
    {[raised |-> "LLMProviderError", result |-> <<>>],
     [raised |-> "none",
      result |-> <<[suggested_title |-> "Tokyo Cafes", suggested_summary |-> "",
                    places |-> <<ExtractedPlaces[3]>>]>>]}

\* The videos process_video gives for the URLs tried.
Videos ==
    {Video("test123", "I visited this amazing restaurant called Le Bistro.",
           url_watch),
     Video("abc456", "Blue Bottle has the best coffee.", url_short)}

\* What ingesting one video left in a session: the video, retitled when the
\* extraction succeeded, and the places extracted from it.
Ingested ==
    <<[video |-> [Video("test123", "I visited Le Bistro.", url_watch)
                    EXCEPT !.title = "Paris Food Tour", !.summary = "Paris.",
                           !.places_count = 2],
       places |-> <<ExtractedPlaces[1], ExtractedPlaces[2]>>],
      [video |-> [Video("abc456", "Blue Bottle is the best.", url_short)
                    EXCEPT !.title = "Tokyo Cafes", !.summary = "",
                           !.places_count = 1],
       places |-> <<ExtractedPlaces[3]>>],
      [video |-> Video("test123", "I visited Le Bistro again.", url_watch),
       places |-> <<>>]>>

\* The session after the ingests of sequence ks (indices into Ingested).
RECURSIVE SessionAfter(_, _)
SessionAfter(session, ks) ==
    IF ks = <<>> THEN session
    ELSE LET g == Ingested[Head(ks)]
             n == Len(session.places)
         IN  SessionAfter(
                [session EXCEPT
                    !.videos = Append(@, g.video),
                    !.places = @ \o [i \in 1..Len(g.places) |->
                                        Place(n + i, g.places[i], g.video.video_id)]],
                Tail(ks))

ToolInit ==
    /\ now = 0
    /\ \E ks \in SeqUpTo({1, 2, 3}, MaxVideos) :
          objs = <<SessionAfter(Session(<<>>, 0), ks)>>
    /\ _sessions = dict_set(<<>>, 1, 1)
    /\ _cleanup_task = None
    /\ tasks = <<>>
    /\ pc = "idle"
    /\ faults = 0
    /\ ret = Ret("init", None, "none", None)
    /\ reqs = <<>>

\* One call is tried in a run.  The tool of a chat turn is called on the
\* places of the session.
SearchPlaces(query, place_type, limit) ==
    /\ ret.op = "init"
    /\ LET res == search_places(objs[1].places, query, place_type, limit)
       IN  /\ objs' = [objs EXCEPT ![1].places = res.places]
           /\ ret' = Ret("search_places",
                         [places |-> objs[1].places, query |-> query,
                          place_type |-> place_type, limit |-> limit],
                         "none", res.val)
    /\ UNCHANGED <<now, _sessions, _cleanup_task, tasks, pc, faults, reqs>>

GetVideoTranscript(video_id) ==
    /\ ret.op = "init"
    /\ LET res == get_video_transcript(objs[1].videos, video_id)
       IN  /\ objs' = [objs EXCEPT ![1].videos = res.videos]
           /\ ret' = Ret("get_video_transcript",
                         [videos |-> objs[1].videos, video_id |-> video_id],
                         res.raised, res.val)
    /\ UNCHANGED <<now, _sessions, _cleanup_task, tasks, pc, faults, reqs>>

\* The extraction is called on a video, with the session's places made so far.
ExtractPlaces(video, attempts) ==
    /\ ret.op = "init"
    /\ LET n == Len(objs[1].places)
           res == extract_places_from_video(video, attempts, n)
       IN  ret' = Ret("extract_places_from_video",
                      [video |-> video, attempts |-> attempts, n |-> n],
                      res.raised, res)
    /\ UNCHANGED <<now, objs, _sessions, _cleanup_task, tasks, pc, faults, reqs>>

\* The queries, categories and limits the tool is tried with.
Queries == {<<>>, <<"b", "l", "u", "e">>, <<"B", "I", "S">>, <<"e">>, <<"z">>}

Categories ==
    {<<>>, RESTAURANT, <<"C", "o", "f", "f", "e", "e", "_", "S", "h", "o", "p">>,
     <<"H", "O", "T", "E", "L">>, cafe}

Limits == (-1)..MaxLimit

ToolNext ==
    \/ \E q \in Queries, c \in Categories, l \in Limits : SearchPlaces(q, c, l)
    \/ \E v \in {"test123", "abc456", "nope"} : GetVideoTranscript(v)
    \/ \E v \in Videos, a \in LLMOutcomes, b \in LLMRetryOutcomes :
          ExtractPlaces(v, <<a, b>>)

ToolSpec == ToolInit /\ [][ToolNext]_vars

(* ------------------------------ claims -------------------------------- *)

\* The session object stored under id.
Stored(id) == objs[_sessions[id]]

\* id is a key of the dict and its session has been idle longer than the TTL.
IdleTooLong(id) ==
    id \in DOMAIN _sessions /\ now - Stored(id).last_activity > session_ttl_seconds

\* Dict S2 is dict S without the keys in ids.
Without(S2, S, ids) ==
    /\ DOMAIN S2 = DOMAIN S \ ids
    /\ \A k \in DOMAIN S2 : S2[k] = S[k]

\* Dict S2 is dict S with the one new key k, bound to reference r.
WithNew(S2, S, k, r) ==
    /\ k \notin DOMAIN S
    /\ DOMAIN S2 = DOMAIN S \cup {k}
    /\ S2[k] = r
    /\ \A j \in DOMAIN S : S2[j] = S[j]

\* The collections of two sessions are equal, field for field.
SameContents(a, b) ==
    /\ a.videos = b.videos
    /\ a.places = b.places
    /\ a.chat_history = b.chat_history

\* Heap H2 is heap H with one more Session, at reference r, new and empty.
OneNewSession(H2, H, r) ==
    /\ r = Len(H) + 1
    /\ Len(H2) = Len(H) + 1
    /\ \A x \in 1..Len(H) : H2[x] = H[x]
    /\ H2[r].videos = <<>>
    /\ H2[r].places = <<>>
    /\ H2[r].chat_history = <<>>

\* C1: get(id) returns the stored session exactly when id is a key and
\* now - last_activity <= ttl (idle for exactly ttl included); a key idle
\* longer is removed, get fails with session-not-found and the count is one
\* lower; an absent id fails with session-not-found and the dict is unchanged.
C1_Get ==
    /\ \A id \in RequestIds :
        LET res == get_session(_sessions, objs, id, now)
            present == id \in DOMAIN _sessions
            live == present /\ now - Stored(id).last_activity <= session_ttl_seconds
        IN  /\ (res.raised = "none") <=> live
            /\ live => /\ res.val = _sessions[id]
                       /\ res.sessions = _sessions
                       /\ res.objs = objs
            /\ (present /\ ~live) =>
                  /\ res.raised \in InvalidSessionError
                  /\ Without(res.sessions, _sessions, {id})
                  /\ Cardinality(DOMAIN res.sessions)
                        = Cardinality(DOMAIN _sessions) - 1
            /\ ~present =>
                  /\ res.raised \in InvalidSessionError
                  /\ res.sessions = _sessions
    /\ ret.op = "get" =>
          IF ret.raised = "none"
          THEN /\ ret.arg \in DOMAIN _sessions
               /\ ret.val = _sessions[ret.arg]
               /\ ~IdleTooLong(ret.arg)
          ELSE /\ ret.raised \in InvalidSessionError
               /\ ret.arg \notin DOMAIN _sessions

\* A get has just evicted a session that was idle longer than the TTL.
C1_Witness ==
    /\ ret.op = "get"
    /\ ret.raised = "Session expired"
    /\ ret.arg \notin DOMAIN _sessions
    /\ \E r \in Refs : /\ objs[r].session_id = ret.arg
                       /\ now - objs[r].last_activity > session_ttl_seconds

\* C2: get_or_create(id) never fails.  With a falsy or absent id it stores one
\* new session under a fresh id, not the requested one.  With a present id it
\* returns the stored session without a TTL check, even when it is idle longer
\* than the TTL, and changes neither the dict nor any session; a second call
\* gives the same session with the same contents.
C2_GetOrCreate ==
    /\ \A id \in RequestIds \cup {None} :
        (id \in DOMAIN _sessions \/ Len(objs) < MaxSessions) =>
        LET res == get_or_create_session(_sessions, objs, id, now)
        IN  /\ res.raised = "none"
            /\ IF id \in DOMAIN _sessions
               THEN /\ res.val = _sessions[id]
                    /\ res.sessions = _sessions
                    /\ res.objs = objs
                    /\ LET again == get_or_create_session(res.sessions, res.objs,
                                                          id, now)
                       IN  /\ again.raised = "none"
                           /\ again.objs[again.val].session_id
                                 = res.objs[res.val].session_id
                           /\ SameContents(again.objs[again.val], res.objs[res.val])
               ELSE /\ OneNewSession(res.objs, objs, res.val)
                    /\ res.objs[res.val].session_id # id
                    /\ WithNew(res.sessions, _sessions,
                               res.objs[res.val].session_id, res.val)
    /\ ret.op = "get_or_create" =>
          /\ ret.raised = "none"
          /\ ret.val \in Refs
          /\ objs[ret.val].session_id \in DOMAIN _sessions
          /\ Stored(objs[ret.val].session_id) = objs[ret.val]
          /\ ret.arg \in DOMAIN _sessions => objs[ret.val].session_id = ret.arg

\* get_or_create has just returned a stored session that is idle longer than
\* the TTL.
C2_Witness ==
    /\ ret.op = "get_or_create"
    /\ IdleTooLong(ret.arg)
    /\ ret.val = _sessions[ret.arg]

\* C3: update(session) never fails and stores the session under its id,
\* present before or not, leaving the other entries alone; a get of that id
\* directly afterwards returns a session with the videos, places and chat
\* history passed to update.
C3_UpdateRoundTrip ==
    /\ \A r \in Refs :
        LET res == update_session(_sessions, objs, r, now)
            id == objs[r].session_id
            got == get_session(res.sessions, res.objs, id, now)
        IN  /\ res.raised = "none"
            /\ DOMAIN res.sessions = DOMAIN _sessions \cup {id}
            /\ \A k \in DOMAIN _sessions \ {id} : res.sessions[k] = _sessions[k]
            /\ got.raised = "none"
            /\ got.objs[got.val].session_id = id
            /\ SameContents(got.objs[got.val], objs[r])
    /\ ret.op = "update" =>
          /\ ret.raised = "none"
          /\ objs[ret.arg].session_id \in DOMAIN _sessions
          /\ _sessions[objs[ret.arg].session_id] = ret.arg

\* update has just stored a session that holds an appended Place, which a get
\* reads back with every field.
C3_Witness ==
    /\ ret.op = "update"
    /\ objs[ret.arg].session_id \in DOMAIN _sessions
    /\ Stored(objs[ret.arg].session_id).places = <<sample_place>>

\* C4: delete(id) of a key removes exactly that entry: the count is one lower,
\* no other session changes and a following get(id) fails with
\* session-not-found.  delete(id) of an absent id fails with
\* session-not-found and leaves the dict unchanged.
C4_Delete ==
    /\ \A id \in RequestIds :
        LET res == delete_session(_sessions, objs, id)
        IN  IF id \in DOMAIN _sessions
            THEN /\ res.raised = "none"
                 /\ Without(res.sessions, _sessions, {id})
                 /\ Cardinality(DOMAIN res.sessions)
                       = Cardinality(DOMAIN _sessions) - 1
                 /\ res.objs = objs
                 /\ get_session(res.sessions, res.objs, id, now).raised
                       \in InvalidSessionError
            ELSE /\ res.raised \in InvalidSessionError
                 /\ res.sessions = _sessions
                 /\ res.objs = objs
    /\ ret.op = "delete" =>
          /\ ret.raised \in InvalidSessionError \cup {"none"}
          /\ ret.arg \notin DOMAIN _sessions

\* delete has just removed one session and another is still stored.
C4_Witness ==
    /\ ret.op = "delete"
    /\ ret.raised = "none"
    /\ ret.arg \notin DOMAIN _sessions
    /\ _sessions # <<>>

\* The step was operation op called with arg.
Did(op, arg) == ret'.op = op /\ ret'.arg = arg

\* C5: the last_activity of every session never decreases and is never
\* earlier than its created_at; update sets it to the current time; get,
\* get_or_create, count and reaper cycles leave it unchanged.
C5_LastActivity ==
    [][/\ \A r \in 1..Len(objs') : objs'[r].last_activity >= objs'[r].created_at
       /\ \A r \in Refs :
            /\ objs'[r].last_activity >= objs[r].last_activity
            /\ Did("update", r) => objs'[r].last_activity = now
            /\ ret'.op \in {"get", "get_or_create", "count", "reaper"}
                  => objs'[r].last_activity = objs[r].last_activity
    ]_vars

\* update has just refreshed a session created at an earlier instant.
C5_Witness ==
    /\ ret.op = "update"
    /\ objs[ret.arg].last_activity = now
    /\ objs[ret.arg].last_activity > objs[ret.arg].created_at

\* C6: a reaper cycle removes every session with now - last_activity > ttl
\* and no other; a session get would return at that instant is not evicted.
C6_ReaperCycle ==
    /\ LET res == cleanup_cycle(_sessions, objs, now)
       IN  /\ Without(res.sessions, _sessions,
                      {id \in DOMAIN _sessions :
                         now - Stored(id).last_activity > session_ttl_seconds})
           /\ res.objs = objs
           /\ \A id \in DOMAIN _sessions :
                 get_session(_sessions, objs, id, now).raised = "none"
                     <=> id \in DOMAIN res.sessions
    /\ ret.op = "reaper" =>
          \A id \in DOMAIN _sessions :
              now - Stored(id).last_activity <= session_ttl_seconds

\* A cycle has just evicted a session and kept one that is idle for exactly
\* the TTL.
C6_Witness ==
    /\ ret.op = "reaper"
    /\ ret.val >= 1
    /\ \E id \in DOMAIN _sessions :
          now - Stored(id).last_activity = session_ttl_seconds

\* C7: every store operation and every reaper cycle acts on the dict in one
\* piece: no del ever meets a key that is gone (no KeyError), and every entry
\* a reader finds is a whole Session stored under its own id.
C7_Atomic ==
    /\ ret.raised # "KeyError"
    /\ \A id \in DOMAIN _sessions :
          /\ _sessions[id] \in Refs
          /\ Stored(id).session_id = id
          /\ DOMAIN Stored(id) = DOMAIN Session(<<>>, 0)

\* A get has evicted an expired session while a reaper task was alive.
C7_Witness ==
    /\ ret.op = "get"
    /\ ret.raised = "Session expired"
    /\ \E k \in 1..Len(tasks) : tasks[k] = "sleeping"

\* The reaper has been started and stop() has not been called since.
ReaperRunning == _cleanup_task # None /\ pc = "idle"

\* C8: while the reaper is running, a stored session idle longer than the TTL
\* is eventually removed (unless it is updated, or the reaper is stopped), and
\* a reaper task that met an exception in a cycle is still in its loop.
C8_EventuallyReaped ==
    /\ [][ret'.op = "reaper" /\ ret'.raised = "Exception"
            => tasks'[ret'.arg] = "sleeping"]_vars
    /\ \A id \in 1..MaxSessions :
          (IdleTooLong(id) /\ ReaperRunning) ~> ~(IdleTooLong(id) /\ ReaperRunning)

\* A cycle has evicted a session after an earlier cycle raised.
C8_Witness ==
    /\ faults >= 1
    /\ ret.op = "reaper"
    /\ ret.raised = "none"
    /\ ret.val >= 1

\* The reaper tasks that have not finished.
LiveTasks(T) == {k \in 1..Len(T) : T[k] # "done"}

\* C9: start() never makes a second reaper task; when stop() has returned the
\* handle is None and no reaper task is left; only the task of the handle,
\* not yet cancelled, runs cycles; stop() without a task does nothing and
\* start() with the handle None starts a new task.
C9_Lifecycle ==
    /\ LiveTasks(tasks) \subseteq {_cleanup_task}
    /\ ret.op = "stop" => _cleanup_task = None /\ LiveTasks(tasks) = {} /\ pc = "idle"
    /\ ret.op = "start" => _cleanup_task # None /\ tasks[_cleanup_task] = "sleeping"
    /\ ret.op = "reaper" => ret.arg = _cleanup_task /\ pc = "idle"
    /\ pc = "idle" =>
          LET s == start(_cleanup_task, tasks)
              p == stop(_cleanup_task, tasks)
          IN  /\ LiveTasks(s.tasks) = {s.handle}
              /\ _cleanup_task # None => s.tasks = tasks /\ s.handle = _cleanup_task
              /\ _cleanup_task = None =>
                    /\ Len(s.tasks) = Len(tasks) + 1
                    /\ p.tasks = tasks
                    /\ p.pc = "idle"
              /\ _cleanup_task # None =>
                    /\ p.pc = "stopping"
                    /\ p.tasks[_cleanup_task] = "cancelling"

\* start() has just started a new reaper after an earlier one was stopped.
C9_Witness ==
    /\ ret.op = "start"
    /\ ret.val = 1
    /\ Len(tasks) = 2
    /\ tasks[1] = "done"
    /\ tasks[2] = "sleeping"

\* C10: create() never fails and adds exactly one session with an id that is
\* no key of the dict and with empty collections; count() is the number of
\* entries of the dict, expired ones included, so create raises it by one.
C10_Create ==
    /\ Len(objs) < MaxSessions =>
          LET res == create_session(_sessions, objs, now)
          IN  /\ res.raised = "none"
              /\ OneNewSession(res.objs, objs, res.val)
              /\ WithNew(res.sessions, _sessions,
                         res.objs[res.val].session_id, res.val)
              /\ get_session_count(res.sessions) = get_session_count(_sessions) + 1
    /\ get_session_count(_sessions) = Cardinality(DOMAIN _sessions)
    /\ ret.op = "count" => ret.raised = "none" /\ ret.val = Cardinality(DOMAIN _sessions)
    /\ ret.op = "create" =>
          /\ ret.raised = "none"
          /\ ret.val = Len(objs)
          /\ objs[ret.val].session_id \in DOMAIN _sessions
          /\ Stored(objs[ret.val].session_id) = objs[ret.val]
          /\ SameContents(objs[ret.val], Session(<<>>, 0))

\* count() has just counted two entries, one of them idle longer than the TTL.
C10_Witness ==
    /\ ret.op = "count"
    /\ ret.val = 2
    /\ \E id \in DOMAIN _sessions : IdleTooLong(id)

(* --------------------------- video fetch ------------------------------ *)

\* A URL is the sequence of its parts.  The parts that the patterns of
\* extract_video_id look for (lines 39-42), in the order they are tried.
url_patterns ==
    <<"youtube.com/watch?v=", "youtu.be/", "youtube.com/embed/", "youtube.com/v/">>

\* extract_video_id(url): the part after the first part that matches a
\* pattern; ValueError without one.
extract_video_id(url) ==
    LET at == {i \in 1..(Len(url) - 1) :
                  \E j \in 1..Len(url_patterns) : url[i] = url_patterns[j]}
    IN  IF at = {}
        THEN [raised |-> "ValueError", val |-> ""]
        ELSE [raised |-> "none",
              val |-> url[(CHOOSE i \in at : \A j \in at : i <= j) + 1]]

\* The videos YouTube has no transcript for.
NoTranscript == {"gone404"}

\* fetch_transcript(video_id) (lines 63-104).
fetch_transcript(video_id) ==
    IF video_id \in NoTranscript
    THEN [raised |-> "YouTubeTranscriptError", val |-> ""]
    ELSE [raised |-> "none", val |-> "Transcript of " \o video_id]

\* process_video(url) (lines 133-170): the exception raised, or the Video
\* (a sequence of one).  Nothing in it suspends the handler.
process_video(url) ==
    LET id == extract_video_id(url)
        transcript == fetch_transcript(id.val)
    IN  IF id.raised # "none"
        THEN [raised |-> id.raised, val |-> <<>>]
        ELSE IF transcript.raised # "none"
             THEN [raised |-> transcript.raised, val |-> <<>>]
             ELSE [raised |-> "none", val |-> <<Video(id.val, transcript.val, url)>>]

(* -------------------------- request handlers -------------------------- *)

\* The Place ids generated so far: one per Place held by a session.
RECURSIVE PlaceCount(_)
PlaceCount(H) ==
    IF H = <<>> THEN 0 ELSE Len(Head(H).places) + PlaceCount(Tail(H))

\* The locals of a request handler.  kind: the route; pc: where it stands
\* ("extract" and "llm" are its awaits); arg: the session id of the request;
\* found: arg was a key of the store when the request arrived; session: the
\* Session it holds; appended: where in the chat history its messages went;
\* status: the HTTP status of the response, 0 before.
Request(kind, at, arg, found, session) ==
    [kind |-> kind, pc |-> at, arg |-> arg, found |-> found, session |-> session,
     urls |-> <<>>, idx |-> 0, video |-> 0, success_videos |-> <<>>,
     error_videos |-> <<>>,
     total_places |-> 0, message |-> "", llm_calls |-> 0, appended |-> <<>>,
     updates |-> 0, status |-> 0]

\* What a step of a handler gives: the dict, the heap and its locals after.
Step(S, H, q) == [sessions |-> S, objs |-> H, req |-> q]

\* Mutant: the video is kept by the handler and not yet put in the session
\* when the extraction is awaited.
RECURSIVE ingest_loop_deferred(_, _)
ingest_loop_deferred(H, q) ==
    IF q.idx > Len(q.urls)
    THEN [objs |-> H, req |-> [q EXCEPT !.pc = "update"]]
    ELSE LET v == process_video(q.urls[q.idx])
         IN  IF v.raised # "none"
             THEN ingest_loop_deferred(
                    H, [q EXCEPT !.error_videos = Append(@, q.urls[q.idx]),
                                 !.idx = @ + 1])
             ELSE [objs |-> H,
                   req |-> [q EXCEPT !.pc = "extract",
                                     !.video = Len(H[q.session].videos) + 1]]

\* Mutant: the first failing URL ends the loop.
ingest_loop_abort(H, q) ==
    IF q.idx > Len(q.urls)
    THEN [objs |-> H, req |-> [q EXCEPT !.pc = "update"]]
    ELSE LET v == process_video(q.urls[q.idx])
         IN  IF v.raised # "none"
             THEN [objs |-> H,
                   req |-> [q EXCEPT !.error_videos = Append(@, q.urls[q.idx]),
                                     !.idx = Len(q.urls) + 1,
                                     !.pc = "update"]]
             ELSE [objs |-> [H EXCEPT ![q.session].videos = Append(@, v.val[1])],
                   req |-> [q EXCEPT !.pc = "extract",
                                     !.video = Len(H[q.session].videos) + 1]]

\* The loop of ingest_videos from URL q.idx on (lines 109-115), up to the
\* await of the extraction or to the end of the list.
RECURSIVE ingest_loop(_, _)
ingest_loop(H, q) ==
    IF q.idx > Len(q.urls)
    THEN [objs |-> H, req |-> [q EXCEPT !.pc = "update"]]
    ELSE LET v == process_video(q.urls[q.idx])
         IN  IF v.raised # "none"
             THEN ingest_loop(H, [q EXCEPT !.error_videos = Append(@, q.urls[q.idx]),
                                           !.idx = @ + 1])
             ELSE [objs |-> [H EXCEPT ![q.session].videos = Append(@, v.val[1])],
                   req |-> [q EXCEPT !.pc = "extract",
                                     !.video = Len(H[q.session].videos) + 1]]

\* After the loop (lines 141-158): update the session, respond.
ingest_finish(S, H, q, t) ==
    IF q.pc = "update"
    THEN LET u == update_session(S, H, q.session, t)
         IN  Step(u.sessions, u.objs,
                  [q EXCEPT !.pc = "done", !.updates = @ + 1, !.status = 200])
    ELSE Step(S, H, q)

\* ingest_videos from its start to its first await (lines 88-118).
ingest_start(S, H, session_id, urls, t) ==
    LET g == get_or_create_session(S, H, session_id, t)
        q == [Request("ingest", "start", session_id, session_id \in DOMAIN S, g.val)
                EXCEPT !.urls = urls, !.idx = 1]
        l == ingest_loop(g.objs, q)
    IN  ingest_finish(g.sessions, l.objs, l.req, t)

\* ingest_videos from the return of the extraction's LLM call to its next
\* await (lines 118-138, then the loop again).  q.video is the place in the
\* session's list of the Video the handler holds.
ingest_extracted(S, H, q, attempts, t) ==
    LET at == q.video
        video == H[q.session].videos[at]
        e == extract_places_from_video(video, attempts, PlaceCount(H))
        l == IF e.raised # "none"
             THEN ingest_loop(H, [q EXCEPT !.error_videos = Append(@, q.urls[q.idx]),
                                           !.idx = @ + 1,
                                           !.llm_calls = @ + e.calls])
             ELSE ingest_loop(
                    [H EXCEPT ![q.session].places = @ \o e.val[1].places,
                              ![q.session].videos[at] =
                                  [@ EXCEPT !.title = e.val[1].suggested_title,
                                            !.summary = e.val[1].suggested_summary,
                                            !.places_count = Len(e.val[1].places)]],
                    [q EXCEPT !.success_videos = Append(@, at),
                              !.total_places = @ + Len(e.val[1].places),
                              !.idx = @ + 1,
                              !.llm_calls = @ + e.calls])
    IN  ingest_finish(S, l.objs, l.req, t)

(* ------------------------------ chat ---------------------------------- *)

\* The text of a chat message: a fixed text, and for a reply built from a
\* search the number of places found and the places shown.
Content(text, count, places) == [text |-> text, count |-> count, places |-> places]

\* What a tool call gave: the list of search_places or the str of
\* get_video_transcript.
ToolResult(is_list, list, text) == [is_list |-> is_list, list |-> list, text |-> text]

\* The id of the first session place with the name and video_id of dict d
\* (lines 206-216), as a list of none or one.
matching_place(places, d) ==
    LET at == {i \in 1..Len(places) :
                  places[i].name = d.name /\ places[i].video_id = d.video_id}
    IN  IF at = {} THEN <<>>
        ELSE <<places[CHOOSE i \in at : \A j \in at : i <= j].id>>

\* Mutant: a place already referenced is not referenced again.
RECURSIVE referenced_ids_unique(_, _)
referenced_ids_unique(places, dicts) ==
    IF dicts = <<>> THEN <<>>
    ELSE LET rest == referenced_ids_unique(places, Tail(dicts))
             m == matching_place(places, Head(dicts))
         IN  IF m # <<>> /\ \E i \in 1..Len(rest) : rest[i] = m[1]
             THEN rest
             ELSE m \o rest

\* The loop of lines 204-216 over the dicts a search returned.
RECURSIVE referenced_ids(_, _)
referenced_ids(places, dicts) ==
    IF dicts = <<>> THEN <<>>
    ELSE matching_place(places, Head(dicts)) \o referenced_ids(places, Tail(dicts))

\* The loop over the tool calls of the response (lines 192-220): the
\* exception a tool raised, the results collected and the ids referenced.
RECURSIVE run_tools(_, _)
run_tools(session, tool_calls) ==
    IF tool_calls = <<>>
    THEN [raised |-> "none", tool_results |-> <<>>, referenced_place_ids |-> <<>>]
    ELSE LET c == Head(tool_calls)
             rest == run_tools(session, Tail(tool_calls))
         IN  IF c.name \in {"search_places", "get_video_transcript"} /\ ~c.valid
             THEN [raised |-> "ValidationError", tool_results |-> <<>>,
                   referenced_place_ids |-> <<>>]
             ELSE IF rest.raised # "none" THEN rest
             ELSE IF c.name = "search_places"
             THEN LET res == search_places(session.places, c.query, c.place_type,
                                           c.limit).val
                  IN  [rest EXCEPT
                         !.tool_results = <<ToolResult(TRUE, res, "")>> \o @,
                         !.referenced_place_ids =
                             referenced_ids(session.places, res) \o @]
             ELSE IF c.name = "get_video_transcript"
             THEN [rest EXCEPT
                     !.tool_results =
                         <<ToolResult(FALSE, <<>>,
                              get_video_transcript(session.videos, c.video_id).val)>>
                         \o @]
             ELSE rest

\* The reply of a turn (lines 187, 225-240).
final_response(content, tool_results) ==
    IF tool_results # <<>> /\ tool_results[1].is_list
    THEN IF tool_results[1].list # <<>>
         THEN Content("I found {n} relevant place(s):", Len(tool_results[1].list),
                      [i \in 1..Len(slice_to(tool_results[1].list, 5)) |->
                          [name |-> tool_results[1].list[i].name,
                           type |-> tool_results[1].list[i].type,
                           description |-> tool_results[1].list[i].description,
                           mentioned_context |->
                               tool_results[1].list[i].mentioned_context]])
         ELSE Content("I couldn't find any places matching your criteria.", 0, <<>>)
    ELSE Content(content, 0, <<>>)

\* What chat_with_agent gives: the Session as it is afterwards, the
\* exception raised, the reply with the referenced place ids, and the LLM
\* invocations made.
Turn(session, raised, reply, ids, calls) ==
    [session |-> session, raised |-> raised, reply |-> reply,
     referenced_place_ids |-> ids, calls |-> calls]

\* Mutant: the agent records the user message in the history itself.
chat_with_agent_records(session, user_message, response) ==
    LET session2 == [session EXCEPT !.chat_history =
                        Append(@, ChatMessage("user", Content(user_message, 0, <<>>),
                                              <<>>))]
        t == run_tools(session, response.tool_calls)
    IN  IF response.raised # "none"
        THEN Turn(session2, response.raised, Content("", 0, <<>>), <<>>, 1)
        ELSE IF t.raised # "none"
             THEN Turn(session2, t.raised, Content("", 0, <<>>), <<>>, 1)
             ELSE Turn(session2, "none",
                       final_response(response.content, t.tool_results),
                       t.referenced_place_ids, 1)

\* chat_with_agent(session, user_message, llm_client) (lines 144-252);
\* response is what the one ainvoke gives: an exception, or the content and
\* the tool calls of the model's answer.
chat_with_agent(session, user_message, response) ==
    LET t == run_tools(session, response.tool_calls)
    IN  IF response.raised # "none"
        THEN Turn(session, response.raised, Content("", 0, <<>>), <<>>, 1)
        ELSE IF t.raised # "none"
             THEN Turn(session, t.raised, Content("", 0, <<>>), <<>>, 1)
             ELSE Turn(session, "none",
                       final_response(response.content, t.tool_results),
                       t.referenced_place_ids, 1)

\* chat from its start to the await of the LLM (chat.py lines 82-95,
\* chat_agent.py lines 144-183).
chat_start(S, H, session_id, message, t) ==
    LET g == get_or_create_session(S, H, session_id, t)
    IN  Step(g.sessions, g.objs,
             [Request("chat", "llm", session_id, session_id \in DOMAIN S, g.val)
                EXCEPT !.message = message, !.llm_calls = 1])

\* Mutant: the history is rebuilt from what the handler read at its start
\* (here: nothing) instead of being appended to.
append_exchange_replace(history, user_msg, assistant_msg) ==
    <<user_msg, assistant_msg>>

\* Mutant: the reply is appended before the message it answers.
append_exchange_reversed(history, user_msg, assistant_msg) ==
    Append(Append(history, assistant_msg), user_msg)

\* Mutant: the exchange is inserted at the front of the history.
append_exchange_front(history, user_msg, assistant_msg) ==
    <<user_msg, assistant_msg>> \o history

\* Lines 109-110: the two appends.
append_exchange(history, user_msg, assistant_msg) ==
    Append(Append(history, user_msg), assistant_msg)

\* chat from the return of the LLM call to its response (chat_agent.py lines
\* 183-252, chat.py lines 99-148).
chat_resume(S, H, q, response, t) ==
    LET r == chat_with_agent(H[q.session], q.message, response)
        H1 == [H EXCEPT ![q.session] = r.session]
    IN  IF r.raised # "none"
        THEN Step(S, H1, [q EXCEPT !.pc = "done", !.llm_calls = r.calls,
                                   !.status = 500])
        ELSE LET user_msg == ChatMessage("user", Content(q.message, 0, <<>>), <<>>)
                 assistant_msg == ChatMessage("assistant", r.reply,
                                              r.referenced_place_ids)
                 H2 == [H1 EXCEPT ![q.session].chat_history =
                            append_exchange(@, user_msg, assistant_msg)]
                 u == update_session(S, H2, q.session, t)
             IN  Step(u.sessions, u.objs,
                      [q EXCEPT !.pc = "done", !.llm_calls = r.calls,
                                !.appended = <<Len(H1[q.session].chat_history) + 1,
                                               Len(H1[q.session].chat_history) + 2>>,
                                !.updates = @ + 1, !.status = 200])

(* ------------------------ the routes, running ------------------------- *)

\* The application after startup: an empty store and the reaper asleep.
RouteInit ==
    /\ now = 0
    /\ objs = <<>>
    /\ _sessions = <<>>
    /\ _cleanup_task = 1
    /\ tasks = <<"sleeping">>
    /\ pc = "idle"
    /\ faults = 0
    /\ ret = Ret("init", None, "none", None)
    /\ reqs = <<>>

\* A step of handler k took effect.
Proceed(op, k, st) ==
    /\ _sessions' = st.sessions
    /\ objs' = st.objs
    /\ reqs' = IF k > Len(reqs) THEN Append(reqs, st.req)
               ELSE [reqs EXCEPT ![k] = st.req]
    /\ ret' = Ret(op, k, "none", st.req.status)
    /\ UNCHANGED <<now, _cleanup_task, tasks, pc, faults>>

\* POST /api/ingest arrives and runs to its first await.
Ingest(session_id, urls) ==
    /\ Len(reqs) < MaxRequests
    /\ Cardinality({k \in 1..Len(reqs) : reqs[k].kind = "ingest"}) < MaxIngests
    /\ session_id \in DOMAIN _sessions \/ Len(objs) < MaxSessions
    /\ Proceed("ingest", Len(reqs) + 1,
               ingest_start(_sessions, objs, session_id, urls, now))

\* The LLM call of the extraction returns to ingest handler k.
IngestExtracted(k, attempts) ==
    /\ reqs[k].kind = "ingest"
    /\ reqs[k].pc = "extract"
    /\ Proceed("ingest", k, ingest_extracted(_sessions, objs, reqs[k], attempts, now))

\* POST /api/chat arrives and runs to the await of the LLM.
Chat(session_id, message) ==
    /\ Len(reqs) < MaxRequests
    /\ session_id \in DOMAIN _sessions \/ Len(objs) < MaxSessions
    /\ Proceed("chat", Len(reqs) + 1,
               chat_start(_sessions, objs, session_id, message, now))

\* The LLM call returns to chat handler k.
ChatResume(k, response) ==
    /\ reqs[k].kind = "chat"
    /\ reqs[k].pc = "llm"
    /\ Proceed("chat", k, chat_resume(_sessions, objs, reqs[k], response, now))

\* The URL lists of the ingest requests (1 to MaxUrls URLs).
UrlLists == SeqUpTo({url_watch, url_gone, url_bad}, MaxUrls) \ {<<>>}

\* What the structured LLM call gives to an ingest: an exception, or one
\* place; a second call, if made, would fail.
IngestAttempts ==
    {<<a, [raised |-> "LLMProviderError", result |-> <<>>]>> :
        a \in {[raised |-> "LLMProviderError", result |-> <<>>],
               [raised |-> "none",
                result |-> <<[suggested_title |-> "Paris Food Tour",
                              suggested_summary |-> "",
                              places |-> <<ExtractedPlaces[1]>>]>>]}}

\* What the LLM gives to a chat turn: an exception, a text, a request to
\* search all places, or a tool call whose arguments do not validate.
ChatResponses ==
    {[raised |-> "LLMError", content |-> "", tool_calls |-> <<>>],
     [raised |-> "none", content |-> "Try Le Bistro.", tool_calls |-> <<>>],
     [raised |-> "none", content |-> "",
      tool_calls |-> <<[name |-> "search_places", valid |-> TRUE, query |-> <<>>,
                         place_type |-> <<>>, limit |-> 10]>>],
     [raised |-> "none", content |-> "",
      tool_calls |-> <<[name |-> "search_places", valid |-> FALSE, query |-> <<>>,
                         place_type |-> <<>>, limit |-> 10]>>]}

RouteNext ==
    \/ Tick
    \/ \E id \in RequestIds \cup {None}, urls \in UrlLists : Ingest(id, urls)
    \/ \E k \in 1..Len(reqs), a \in IngestAttempts : IngestExtracted(k, a)
    \/ \E id \in RequestIds \cup {None} : Chat(id, "Where to eat?")
    \/ \E k \in 1..Len(reqs), r \in ChatResponses : ChatResume(k, r)
    \/ \E id \in DOMAIN _sessions : Delete(id)
    \/ ReaperStep

RouteSpec == RouteInit /\ [][RouteNext]_vars

(* ------------------- claims on extraction and tools ------------------- *)

\* The first structured LLM call raised, or its result does not validate.
ExtractionFails(attempts) ==
    \/ attempts[1].raised # "none"
    \/ \E i \in 1..Len(attempts[1].result[1].places) :
          attempts[1].result[1].places[i].type \notin PlaceType

\* C14: when the LLM call or the validation of its result fails,
\* extract_places_from_video raises ExtractionError, naming the video id and
\* the cause, and returns nothing, never a partly filled result; in every
\* case it makes exactly one structured LLM call and leaves the Video as it
\* was.
C14_ExtractionError ==
    ret.op = "extract_places_from_video" =>
        LET a == ret.arg
            e == ret.val
        IN  /\ e.calls = 1
            /\ e.video = a.video
            /\ ExtractionFails(a.attempts) <=> e.raised # "none"
            /\ ExtractionFails(a.attempts) =>
                  /\ e.raised = "ExtractionError"
                  /\ e.val = <<>>
                  /\ \E i \in 1..Len(e.error_msg) : e.error_msg[i] = a.video.video_id
                  /\ \E i \in 1..Len(e.error_msg) :
                        e.error_msg[i] = IF a.attempts[1].raised # "none"
                                         THEN a.attempts[1].raised
                                         ELSE "ValidationError"

\* The extraction has just failed on a result whose first place validates and
\* whose second does not, while a second call would have succeeded.
C14_Witness ==
    /\ ret.op = "extract_places_from_video"
    /\ ret.raised = "ExtractionError"
    /\ ret.arg.attempts[1].raised = "none"
    /\ Len(ret.arg.attempts[1].result[1].places) = 2
    /\ ret.arg.attempts[1].result[1].places[1].type \in PlaceType
    /\ ret.arg.attempts[2].raised = "none"
    /\ ret.val.val = <<>>

\* C15: on success extract_places_from_video returns one Place per place of
\* the LLM result, in order, with the video's id, a new id distinct from every
\* other place's, a category of the enumeration and the other fields copied;
\* the title is the LLM's, or "Video {id}" when that is empty; the summary is
\* a string, empty when the LLM gave none, never None.
C15_ExtractionResult ==
    (ret.op = "extract_places_from_video" /\ ret.raised = "none") =>
        LET a == ret.arg
            src == a.attempts[1].result[1]
            r == ret.val.val[1]
        IN  /\ Len(ret.val.val) = 1
            /\ Len(r.places) = Len(src.places)
            /\ \A i \in 1..Len(r.places) :
                  /\ r.places[i].video_id = a.video.video_id
                  /\ r.places[i].type \in PlaceType
                  /\ r.places[i].type = src.places[i].type
                  /\ r.places[i].name = src.places[i].name
                  /\ r.places[i].description = src.places[i].description
                  /\ r.places[i].timestamp_seconds = src.places[i].timestamp_seconds
                  /\ r.places[i].mentioned_context = src.places[i].mentioned_context
                  /\ r.places[i].address = src.places[i].address
                  /\ r.places[i].neighborhood = src.places[i].neighborhood
                  /\ \A j \in 1..Len(r.places) :
                        i # j => r.places[i].id # r.places[j].id
                  /\ \A j \in 1..Len(objs[1].places) :
                        r.places[i].id # objs[1].places[j].id
            /\ r.suggested_title = IF src.suggested_title = ""
                                   THEN "Video " \o a.video.video_id
                                   ELSE src.suggested_title
            /\ r.suggested_summary # NoneStr
            /\ src.suggested_summary \in {"", NoneStr} => r.suggested_summary = ""
            /\ src.suggested_summary \notin {"", NoneStr} =>
                  r.suggested_summary = src.suggested_summary

\* The extraction has just returned two places for a session that already
\* holds places, from a result with an empty title and no summary.
C15_Witness ==
    /\ ret.op = "extract_places_from_video"
    /\ ret.raised = "none"
    /\ Len(ret.val.val[1].places) = 2
    /\ objs[1].places # <<>>
    /\ ret.arg.attempts[1].result[1].suggested_title = ""
    /\ ret.arg.attempts[1].result[1].suggested_summary = NoneStr
    /\ ret.val.val[1].suggested_title = "Video test123"
    /\ ret.val.val[1].suggested_summary = ""

\* Text s contains text q, letter case ignored.
ContainsCI(q, s) ==
    \E i \in 0..(Len(s) - Len(q)) :
        \A j \in 1..Len(q) : lower_char(s[i + j]) = lower_char(q[j])

\* Place p is what a search for query and place_type asks for.
Wanted(p, query, place_type) ==
    /\ (place_type # <<>> /\ \E v \in PlaceType : lower(v) = lower(place_type))
          => lower(p.type) = lower(place_type)
    /\ query # <<>> =>
          \/ ContainsCI(query, p.name)
          \/ ContainsCI(query, p.description)
          \/ ContainsCI(query, p.mentioned_context)

C20_Transcript ==
    ret.op = "get_video_transcript" =>
        LET a == ret.arg
            with_id == {i \in 1..Len(a.videos) : a.videos[i].video_id = a.video_id}
        IN  /\ ret.raised = "none"
            /\ objs[1].videos = a.videos
            /\ with_id = {} =>
                  ret.val = "Video " \o a.video_id \o " not found in session."
            /\ \A i \in with_id :
                  (\A j \in with_id : i <= j) =>
                      ret.val = "Transcript for '" \o a.videos[i].title \o "':\n\n"
                                \o a.videos[i].transcript

\* The transcript of the first of two videos with the same id has just been
\* returned.
C20_Witness ==
    /\ ret.op = "get_video_transcript"
    /\ Len(ret.arg.videos) = 2
    /\ ret.arg.videos[1].video_id = ret.arg.video_id
    /\ ret.arg.videos[2].video_id = ret.arg.video_id
    /\ ret.arg.videos[1].title # ret.arg.videos[2].title
    /\ ret.val = "Transcript for '" \o ret.arg.videos[1].title \o "':\n\n"
                 \o ret.arg.videos[1].transcript

(* ------------------------ claims on the routes ------------------------ *)

\* The chat handlers and the ingest handlers started so far.
Chats == {k \in 1..Len(reqs) : reqs[k].kind = "chat"}
Ingests == {k \in 1..Len(reqs) : reqs[k].kind = "ingest"}

\* C11: a chat request whose session id is not in the store is rejected with
\* session-not-found: no session is created for it, no LLM call is made and
\* no chat message is stored.
C11_ChatRejected ==
    \A k \in Chats :
        ~reqs[k].found =>
            /\ reqs[k].status = 404
            /\ reqs[k].session = None
            /\ reqs[k].llm_calls = 0
            /\ reqs[k].appended = <<>>

\* The elements of sequence s at the indices in I, in order.
Sub(s, I) ==
    [k \in 1..Cardinality(I) |->
        s[CHOOSE i \in I : Cardinality({j \in I : j < i}) = k - 1]]

\* C13: an ingest request processes its URLs one at a time in request order;
\* a failure of URL parsing, transcript fetch or extraction does not end it:
\* every later URL is processed, the response lists exactly the videos that
\* succeeded, in request order, and the session is updated (last_activity
\* refreshed) exactly once, at the end, even when every URL failed.
C13_IngestBatch ==
    /\ \A k \in Ingests :
        LET q == reqs[k]
            handled == 1..(Len(q.success_videos) + Len(q.error_videos))
            videos == objs[q.session].videos
        IN  /\ q.idx = Len(q.success_videos) + Len(q.error_videos) + 1
            /\ q.pc = "extract" => /\ q.idx <= Len(q.urls)
                                   /\ q.updates = 0
                                   /\ q.status = 0
                                   /\ videos[q.video].url = q.urls[q.idx]
            /\ q.pc = "done" => /\ q.idx = Len(q.urls) + 1
                                /\ q.updates = 1
                                /\ q.status = 200
            /\ q.pc \in {"extract", "done"}
            /\ \E ok \in SUBSET handled :
                  /\ \A i \in ok : process_video(q.urls[i]).raised = "none"
                  /\ Sub(q.urls, ok) =
                        [j \in 1..Len(q.success_videos) |->
                            videos[q.success_videos[j]].url]
                  /\ Sub(q.urls, handled \ ok) = q.error_videos
            /\ \A i, j \in 1..Len(q.success_videos) :
                  i < j => q.success_videos[i] < q.success_videos[j]
    /\ (ret.op = "ingest" /\ reqs[ret.arg].pc = "done") =>
          LET q == reqs[ret.arg]
          IN  /\ objs[q.session].last_activity = now
              /\ objs[q.session].session_id \in DOMAIN _sessions
              /\ _sessions[objs[q.session].session_id] = q.session

\* An ingest has just finished whose first URL did not parse and whose second
\* URL succeeded, at a later instant than its session was created.
C13_Witness ==
    /\ ret.op = "ingest"
    /\ reqs[ret.arg].pc = "done"
    /\ reqs[ret.arg].urls = <<url_bad, url_watch>>
    /\ reqs[ret.arg].error_videos = <<url_bad>>
    /\ Len(reqs[ret.arg].success_videos) = 1
    /\ objs[reqs[ret.arg].session].last_activity = now
    /\ objs[reqs[ret.arg].session].created_at < now

\* The LLM invocation or a tool execution of the turn fails.
TurnFails(response) ==
    \/ response.raised # "none"
    \/ \E i \in 1..Len(response.tool_calls) : ~response.tool_calls[i].valid

\* C17: chat_with_agent never modifies the session, on success or failure.
\* When the LLM invocation or a tool execution fails, the failure reaches the
\* caller as an error after exactly one LLM invocation, no message is
\* appended to the chat history, update is not called and last_activity is
\* not refreshed.
C17_ChatFailure ==
    /\ \A k \in Chats :
        reqs[k].pc = "llm" =>
            \A response \in ChatResponses :
                LET q == reqs[k]
                    r == chat_with_agent(objs[q.session], q.message, response)
                    st == chat_resume(_sessions, objs, q, response, now)
                IN  /\ r.session = objs[q.session]
                    /\ r.calls = 1
                    /\ TurnFails(response) <=> r.raised # "none"
                    /\ TurnFails(response) =>
                          /\ st.objs = objs
                          /\ st.sessions = _sessions
                          /\ st.req.status = 500
                          /\ st.req.llm_calls = 1
                          /\ st.req.appended = <<>>
                          /\ st.req.updates = 0
    /\ \A k \in Chats :
          reqs[k].status = 500 =>
              /\ reqs[k].llm_calls = 1
              /\ reqs[k].appended = <<>>
              /\ reqs[k].updates = 0

\* A chat turn has just failed in a tool, at a later instant than the last
\* activity of its session, which holds places.
C17_Witness ==
    /\ ret.op = "chat"
    /\ reqs[ret.arg].status = 500
    /\ objs[reqs[ret.arg].session].places # <<>>
    /\ objs[reqs[ret.arg].session].last_activity < now
    /\ \E k \in Ingests : reqs[k].session = reqs[ret.arg].session

\* C18: when chat requests run concurrently on one session, no update is
\* lost: the chat history holds the exchange of every request that finished,
\* each as a user message directly followed by its assistant message, in the
\* order in which the appends ran, which need not be the order of arrival.
C18_ConcurrentChats ==
    /\ \A k \in Chats :
          reqs[k].status = 200 =>
              LET q == reqs[k]
                  h == objs[q.session].chat_history
              IN  /\ Len(q.appended) = 2
                  /\ q.appended[2] = q.appended[1] + 1
                  /\ q.appended[2] <= Len(h)
                  /\ h[q.appended[1]] =
                        ChatMessage("user", Content(q.message, 0, <<>>), <<>>)
                  /\ h[q.appended[2]].role = "assistant"
    /\ \A k1, k2 \in Chats :
          (/\ k1 # k2
           /\ reqs[k1].status = 200
           /\ reqs[k2].status = 200
           /\ reqs[k1].session = reqs[k2].session) =>
              /\ reqs[k1].appended[1] # reqs[k2].appended[1]
              /\ reqs[k1].appended[1] # reqs[k2].appended[2]
              /\ reqs[k1].appended[2] # reqs[k2].appended[1]
              /\ Len(objs[reqs[k1].session].chat_history) >= 4
    /\ (ret.op = "chat" /\ reqs[ret.arg].status = 200) =>
          reqs[ret.arg].appended[2] =
              Len(objs[reqs[ret.arg].session].chat_history)

\* Two chat requests on one session, the second sent with the id of a session
\* in the store, have both finished, the one that arrived later first.
C18_Witness ==
    /\ Len(reqs) = 2
    /\ reqs[1].kind = "chat"
    /\ reqs[2].kind = "chat"
    /\ reqs[2].found
    /\ reqs[1].session = reqs[2].session
    /\ reqs[1].status = 200
    /\ reqs[2].status = 200
    /\ reqs[2].appended = <<1, 2>>
    /\ reqs[1].appended = <<3, 4>>

\* C19: every place of a session has the video_id of a video of the same
\* session; no place is held by two sessions, and what a handler added is in
\* the session it holds; a step changes no session but the one its handler
\* holds.
C19_Ownership ==
    /\ [](\A r \in Refs :
            /\ \A i \in 1..Len(objs[r].places) :
                  \E j \in 1..Len(objs[r].videos) :
                      objs[r].videos[j].video_id = objs[r].places[i].video_id
            /\ \A r2 \in Refs, i \in 1..Len(objs[r].places) :
                  \A j \in 1..Len(objs[r2].places) :
                      objs[r].places[i].id = objs[r2].places[j].id =>
                          (r = r2 /\ i = j))
    /\ [](\A k \in 1..Len(reqs) :
            /\ \A j \in 1..Len(reqs[k].success_videos) :
                  reqs[k].success_videos[j] <= Len(objs[reqs[k].session].videos)
            /\ \A j \in 1..Len(reqs[k].appended) :
                  reqs[k].appended[j] <= Len(objs[reqs[k].session].chat_history))
    /\ [][\A r \in Refs :
            objs'[r] # objs[r] =>
                /\ ret'.op \in {"ingest", "chat"}
                /\ reqs'[ret'.arg].session = r]_vars

\* A chat has just stored its exchange in one session while another session
\* holds a video and a place.
C19_Witness ==
    /\ ret.op = "chat"
    /\ reqs[ret.arg].status = 200
    /\ \E r \in Refs :
          /\ r # reqs[ret.arg].session
          /\ objs[r].places # <<>>
          /\ objs[r].chat_history = <<>>

(* -------------------------- place preferences -------------------------- *)

\* The preferences a request can carry.
Preferences == {"interested", "not_interested", "neutral"}

\* setattr(obj, name, value) on a model: a field the model does not declare
\* cannot be assigned.
setattr(obj, name, value) ==
    IF name \in DOMAIN obj
    THEN [raised |-> "none", obj |-> [obj EXCEPT ![name] = value]]
    ELSE [raised |-> "ValueError", obj |-> obj]

\* The two assignments of one branch, the second made when the first passed.
set_flags(place, interested, not_interested) ==
    LET a == setattr(place, "is_interested", interested)
    IN  IF a.raised # "none" THEN a
        ELSE setattr(a.obj, "is_not_interested", not_interested)

\* What the handler gave: the store after it, the status of the response and
\* the place returned, if one was.
PreferenceResult(S, H, status, place) ==
    [sessions |-> S, objs |-> H, status |-> status, place |-> place]

\* PUT /places/preference.
update_place_preference(S, H, session_id, place_id, preference, t) ==
    LET g == get_session(S, H, session_id, t)
    IN  IF g.raised \in InvalidSessionError
        THEN PreferenceResult(g.sessions, g.objs, 404, <<>>)
        ELSE IF g.raised # "none"
        THEN PreferenceResult(g.sessions, g.objs, 500, <<>>)
        ELSE
          LET r == g.val
              places == g.objs[r].places
              at == {i \in 1..Len(places) : places[i].id = place_id}
          IN  IF at = {}
              THEN \* HTTPException(404) raised inside the try: except Exception
                   PreferenceResult(g.sessions, g.objs, 500, <<>>)
              ELSE
                LET i == CHOOSE i \in at : \A j \in at : i <= j
                    f == IF preference = "interested"
                         THEN set_flags(places[i], TRUE, FALSE)
                         ELSE IF preference = "not_interested"
                         THEN set_flags(places[i], FALSE, TRUE)
                         ELSE set_flags(places[i], FALSE, FALSE)
                    H2 == [g.objs EXCEPT ![r].places[i] = f.obj]
                IN  IF f.raised # "none"
                    THEN PreferenceResult(g.sessions, H2, 500, <<>>)
                    ELSE LET u == update_session(g.sessions, H2, r, t)
                         IN  PreferenceResult(u.sessions, u.objs, 200,
                                              <<u.objs[r].places[i]>>)

\* A place id no Place of the session has.
no_such_place == 0

\* A session that ingested videos is in the store.
PlacesInit == ToolInit

UpdatePlacePreference(session_id, place_id, preference) ==
    LET res == update_place_preference(_sessions, objs, session_id, place_id,
                                       preference, now)
        g == get_session(_sessions, objs, session_id, now)
    IN  /\ _sessions' = res.sessions
        /\ objs' = res.objs
        /\ ret' = Ret("update_place_preference",
                      [session_id |-> session_id, place_id |-> place_id,
                       preference |-> preference,
                       found |-> /\ g.raised = "none"
                                 /\ \E i \in 1..Len(objs[g.val].places) :
                                       objs[g.val].places[i].id = place_id,
                       before |-> objs, returned |-> res.place],
                      "none", res.status)
        /\ UNCHANGED <<now, _cleanup_task, tasks, pc, faults, reqs>>

PlaceIds == {objs[1].places[i].id : i \in 1..Len(objs[1].places)}
                \cup {no_such_place}

PlacesNext ==
    \/ Tick
    \/ \E id \in RequestIds, place_id \in PlaceIds, preference \in Preferences :
          UpdatePlacePreference(id, place_id, preference)

PlacesSpec == PlacesInit /\ [][PlacesNext]_vars

\* A flag of a place; a place without the flag counts as not flagged.
Flag(place, name) == name \in DOMAIN place /\ place[name]

\* C12: at no point are both flags of a place true; a place starts neutral,
\* and directly after an update of a place of a session in the store the
\* flags are (true, false) for interested, (false, true) for not_interested
\* and (false, false) for neutral.
C12_Preference ==
    /\ \A r \in Refs : \A i \in 1..Len(objs[r].places) :
          ~(Flag(objs[r].places[i], "is_interested")
              /\ Flag(objs[r].places[i], "is_not_interested"))
    /\ ret.op = "init" =>
          \A r \in Refs : \A i \in 1..Len(objs[r].places) :
              /\ ~Flag(objs[r].places[i], "is_interested")
              /\ ~Flag(objs[r].places[i], "is_not_interested")
    /\ (ret.op = "update_place_preference" /\ ret.arg.found) =>
          /\ ret.val = 200
          /\ \A r \in Refs : \A i \in 1..Len(objs[r].places) :
                (/\ objs[r].session_id = ret.arg.session_id
                 /\ objs[r].places[i].id = ret.arg.place_id) =>
                    /\ Flag(objs[r].places[i], "is_interested")
                          <=> ret.arg.preference = "interested"
                    /\ Flag(objs[r].places[i], "is_not_interested")
                          <=> ret.arg.preference = "not_interested"

(* ------------------- claims on the life of a session ------------------- *)

\* Session new holds everything session old held, in the same places: the
\* same videos (by id, URL and transcript), the same places (by id, name,
\* category and video_id) and the same chat messages.
Extends(old, new) ==
    /\ Len(new.videos) >= Len(old.videos)
    /\ \A i \in 1..Len(old.videos) :
          /\ new.videos[i].video_id = old.videos[i].video_id
          /\ new.videos[i].url = old.videos[i].url
          /\ new.videos[i].transcript = old.videos[i].transcript
    /\ Len(new.places) >= Len(old.places)
    /\ \A i \in 1..Len(old.places) :
          /\ new.places[i].id = old.places[i].id
          /\ new.places[i].name = old.places[i].name
          /\ new.places[i].type = old.places[i].type
          /\ new.places[i].video_id = old.places[i].video_id
    /\ Len(new.chat_history) >= Len(old.chat_history)
    /\ \A i \in 1..Len(old.chat_history) :
          new.chat_history[i] = old.chat_history[i]

\* C21: the videos, places and chat history of a session only grow at the
\* end: no step removes, reorders or replaces an element, and a chat message
\* and the id, name, category and video_id of a place never change.
C21_AppendOnly == [][\A r \in Refs : Extends(objs[r], objs'[r])]_vars

\* A chat has just stored its exchange in a session that already held the
\* exchange of another chat, with a different reply.
C21_Witness ==
    /\ ret.op = "chat"
    /\ reqs[ret.arg].status = 200
    /\ Len(objs[reqs[ret.arg].session].chat_history) = 4
    /\ objs[reqs[ret.arg].session].chat_history[2]
          # objs[reqs[ret.arg].session].chat_history[4]

(* --------------------------- the chat turn, tried ---------------------- *)

\* The chat messages of the history that go to the model (line 164).
history_window == 10

\* Python's s[first:] on a list.
slice_from(s, first) ==
    IF first >= 0
    THEN SubSeq(s, (IF first < Len(s) THEN first ELSE Len(s)) + 1, Len(s))
    ELSE SubSeq(s, (IF Len(s) + first > 0 THEN Len(s) + first ELSE 0) + 1, Len(s))

\* str(i) for a natural number.
RECURSIVE Numeral(_)
Numeral(i) ==
    IF i < 10
    THEN <<"0", "1", "2", "3", "4", "5", "6", "7", "8", "9">>[i + 1]
    ELSE Numeral(i \div 10) \o Numeral(i % 10)

\* CHAT_SYSTEM_PROMPT.format(num_videos, total_places) (lines 155-158).
system_prompt(session) ==
    Content("You are a helpful travel planning assistant. Videos: "
                \o Numeral(Len(session.videos)) \o ". Total places available: "
                \o Numeral(Len(session.places)),
            0, <<>>)

\* The messages of lines 161-167: the system prompt, the recent history and
\* the user message, each with its role.
messages(session, user_message) ==
    LET recent == slice_from(session.chat_history, -history_window)
    IN  <<[role |-> "system", content |-> system_prompt(session)]>>
        \o [i \in 1..Len(recent) |->
              [role |-> recent[i].role, content |-> recent[i].content]]
        \o <<[role |-> "user", content |-> Content(user_message, 0, <<>>)]>>

\* Mutant: the window is taken from the start of the history.
langchain_messages_oldest(session, user_message) ==
    LET m == messages([session EXCEPT !.chat_history =
                          slice_to(@, history_window)], user_message)
    IN  [i \in 1..Len(m) |->
            [type |-> IF m[i].role = "system" THEN "SystemMessage"
                      ELSE IF m[i].role = "user" THEN "HumanMessage"
                      ELSE "AIMessage",
             content |-> m[i].content]]

\* The list given to ainvoke (lines 170-183): the messages converted by role;
\* a message of any other role is left out.
langchain_messages(session, user_message) ==
    LET known == {m \in {messages(session, user_message)[i] :
                            i \in 1..Len(messages(session, user_message))} :
                     m.role \in {"system", "user", "assistant"}}
        m == filter(messages(session, user_message), known)
    IN  [i \in 1..Len(m) |->
            [type |-> IF m[i].role = "system" THEN "SystemMessage"
                      ELSE IF m[i].role = "user" THEN "HumanMessage"
                      ELSE "AIMessage",
             content |-> m[i].content]]

\* The history n finished chat requests leave: n exchanges.
RECURSIVE Exchanges(_)
Exchanges(n) ==
    IF n = 0 THEN <<>>
    ELSE append_exchange(
            Exchanges(n - 1),
            ChatMessage("user", Content("question " \o Numeral(n), 0, <<>>), <<>>),
            ChatMessage("assistant", Content("answer " \o Numeral(n), 0, <<>>), <<>>))

\* The tool calls a response can request: searches for everything, for one
\* place and for a category no place has, a transcript, and a tool that does
\* not exist.
ToolCalls ==
    {[name |-> "search_places", valid |-> TRUE, query |-> <<>>,
      place_type |-> <<>>, limit |-> 10, video_id |-> ""],
     [name |-> "search_places", valid |-> TRUE, query |-> <<"b", "i", "s">>,
      place_type |-> <<>>, limit |-> 1, video_id |-> ""],
     [name |-> "search_places", valid |-> TRUE, query |-> <<>>,
      place_type |-> HOTEL, limit |-> 10, video_id |-> ""],
     [name |-> "get_video_transcript", valid |-> TRUE, query |-> <<>>,
      place_type |-> <<>>, limit |-> 0, video_id |-> "test123"],
     [name |-> "book_hotel", valid |-> TRUE, query |-> <<>>,
      place_type |-> <<>>, limit |-> 0, video_id |-> ""]}

\* What the LLM gives to the turn: an exception, or a text with tool calls.
TurnResponses ==
    {[raised |-> "LLMError", content |-> "", tool_calls |-> <<>>]} \cup
    {[raised |-> "none", content |-> "Try Le Bistro.", tool_calls |-> calls] :
        calls \in SeqUpTo(ToolCalls, MaxToolCalls)}

\* A session that ingested videos and held chats is in the store.
ChatInit ==
    /\ now = 0
    /\ \E ks \in SeqUpTo({1, 2, 3}, MaxChatVideos), n \in 0..MaxExchanges :
          objs = <<[SessionAfter(Session(<<>>, 0), ks)
                      EXCEPT !.chat_history = Exchanges(n)]>>
    /\ _sessions = dict_set(<<>>, 1, 1)
    /\ _cleanup_task = None
    /\ tasks = <<>>
    /\ pc = "idle"
    /\ faults = 0
    /\ ret = Ret("init", None, "none", None)
    /\ reqs = <<>>

\* One turn is tried in a run: what goes to the model, and what comes of its
\* answer.
ChatTurn(user_message, response) ==
    /\ ret.op = "init"
    /\ LET r == chat_with_agent(objs[1], user_message, response)
       IN  /\ objs' = [objs EXCEPT ![1] = r.session]
           /\ ret' = Ret("chat_with_agent",
                         [session |-> objs[1], user_message |-> user_message,
                          response |-> response,
                          messages |-> langchain_messages(objs[1], user_message)],
                         r.raised, r)
    /\ UNCHANGED <<now, _sessions, _cleanup_task, tasks, pc, faults, reqs>>

ChatNext == \E response \in TurnResponses : ChatTurn("Where to eat?", response)

ChatSpec == ChatInit /\ [][ChatNext]_vars

(* ----------------------- claims on the chat turn ----------------------- *)

\* The turn tried went through: neither the model nor a tool raised.
TurnDone == ret.op = "chat_with_agent" /\ ret.raised = "none"

\* What the search_places call c returns on the session of the turn.
Found(c) ==
    search_places(ret.arg.session.places, c.query, c.place_type, c.limit).val

\* The reply that shows the results res of a search.
Formatted(res) ==
    IF res = <<>>
    THEN Content("I couldn't find any places matching your criteria.", 0, <<>>)
    ELSE Content("I found {n} relevant place(s):", Len(res),
                 [i \in 1..(IF Len(res) < 5 THEN Len(res) ELSE 5) |->
                     [name |-> res[i].name, type |-> res[i].type,
                      description |-> res[i].description,
                      mentioned_context |-> res[i].mentioned_context]])

\* C22: when the response requests a search_places call, the reply shows the
\* results of that search (the first of them when there are several): the
\* first at most 5 with name, category, description and mentioned context, or
\* the no-matches message, wherever the call stands among the tool calls.
\* When the response requests no tool call, the reply is its text content and
\* no place is referenced.
C22_ReplyFromSearch ==
    TurnDone =>
        LET calls == ret.arg.response.tool_calls
            searches == {i \in 1..Len(calls) : calls[i].name = "search_places"}
        IN  /\ searches # {} =>
                  ret.val.reply =
                      Formatted(Found(calls[CHOOSE i \in searches :
                                               \A j \in searches : i <= j]))
            /\ calls = <<>> =>
                  /\ ret.val.reply = Content(ret.arg.response.content, 0, <<>>)
                  /\ ret.val.referenced_place_ids = <<>>

\* The places returned by the search calls among calls, in the order of the
\* calls.
RECURSIVE AllFound(_)
AllFound(calls) ==
    IF calls = <<>> THEN <<>>
    ELSE (IF Head(calls).name = "search_places" THEN Found(Head(calls)) ELSE <<>>)
         \o AllFound(Tail(calls))

\* C23: the referenced-places list of a turn with tool calls holds one place
\* id per place returned by each search_places call, in the order of the calls
\* and of their results, duplicates kept: it is as long as all the results
\* together, and each id is the id of a session place with the name and
\* video_id of the place returned.
C23_Referenced ==
    (TurnDone /\ ret.arg.response.tool_calls # <<>>) =>
        LET res == AllFound(ret.arg.response.tool_calls)
            ids == ret.val.referenced_place_ids
            places == ret.arg.session.places
        IN  /\ Len(ids) = Len(res)
            /\ \A k \in 1..Len(res) :
                  \E i \in 1..Len(places) :
                      /\ places[i].id = ids[k]
                      /\ places[i].name = res[k].name
                      /\ places[i].video_id = res[k].video_id

\* Two searches were made on a session that ingested a video twice: the
\* first returned one place, the second several, and an id is referenced
\* more than once.
C23_Witness ==
    /\ TurnDone
    /\ Len(ret.arg.response.tool_calls) = 2
    /\ ret.arg.response.tool_calls[1].limit = 1
    /\ ret.arg.response.tool_calls[2].limit = 10
    /\ Len(ret.val.referenced_place_ids) >= 4
    /\ \E i, j \in 1..Len(ret.val.referenced_place_ids) :
          /\ i + 1 < j
          /\ ret.val.referenced_place_ids[i] = ret.val.referenced_place_ids[j]

\* C24: the list submitted to the model for a turn on a session with n chat
\* messages is the system instruction, then the last min(10, n) messages in
\* their stored order, then the new user message; no older message is in it.
C24_Conversation ==
    ret.op = "chat_with_agent" =>
        LET m == ret.arg.messages
            h == ret.arg.session.chat_history
            n == Len(h)
            w == IF n < 10 THEN n ELSE 10
        IN  /\ Len(m) = w + 2
            /\ m[1] = [type |-> "SystemMessage",
                       content |-> system_prompt(ret.arg.session)]
            /\ \A j \in 1..w :
                  /\ m[1 + j].content = h[n - w + j].content
                  /\ m[1 + j].type = IF h[n - w + j].role = "user"
                                     THEN "HumanMessage" ELSE "AIMessage"
            /\ m[w + 2] = [type |-> "HumanMessage",
                           content |-> Content(ret.arg.user_message, 0, <<>>)]
            /\ \A i \in 1..(n - w), j \in 1..Len(m) : m[j].content # h[i].content

\* A turn was tried on a session with more than 10 chat messages.
C24_Witness ==
    /\ ret.op = "chat_with_agent"
    /\ Len(ret.arg.session.chat_history) > 10
    /\ Len(ret.arg.messages) = 12

(* ------------------- claims on removal and ingestion ------------------- *)

\* The session ids handed out so far.
HandedOut == {objs[r].session_id : r \in Refs}

\* The step taken finishes handler k, started in an earlier step, with a
\* response of status 200.
Finishes(k) ==
    /\ ret'.op \in {"ingest", "chat"}
    /\ ret'.arg = k
    /\ k <= Len(reqs)
    /\ reqs'[k].status = 200

\* C25 as claimed: once a session id has been removed from the map, no
\* later step puts it back.
C25_NeverBack ==
    [][\A id \in HandedOut :
          id \notin DOMAIN _sessions => id \notin DOMAIN _sessions']_vars

\* C25, amended: a removed session id comes back into the map only by the
\* update of a request that obtained the session before the removal and
\* finishes successfully afterwards, and that update always puts it back: the
\* same Session is then stored under the id with last_activity refreshed and
\* get(id) succeeds again.
C25_BackOnlyByUpdate ==
    [][\A id \in HandedOut :
          id \notin DOMAIN _sessions =>
              /\ id \in DOMAIN _sessions' =>
                    \E k \in 1..Len(reqs) :
                        /\ Finishes(k)
                        /\ objs[reqs[k].session].session_id = id
                        /\ _sessions'[id] = reqs[k].session
                        /\ objs'[reqs[k].session].last_activity = now
                        /\ get_session(_sessions', objs', id, now).raised = "none"
                        /\ get_session_count(_sessions')
                              = get_session_count(_sessions) + 1
              /\ \A k \in 1..Len(reqs) :
                    (Finishes(k) /\ objs[reqs[k].session].session_id = id)
                        => id \in DOMAIN _sessions']_vars

\* The first request has just finished on the session it created, which is in
\* the map, although the second request, sent with that session's id, did
\* not find it there.
C25_Witness ==
    /\ Len(reqs) = 2
    /\ ret.op \in {"ingest", "chat"}
    /\ ret.arg = 1
    /\ reqs[1].status = 200
    /\ reqs[2].arg = objs[reqs[1].session].session_id
    /\ ~reqs[2].found
    /\ objs[reqs[1].session].session_id \in DOMAIN _sessions

\* The sum of the places_count of videos (None counts as 0).
RECURSIVE CountSum(_)
CountSum(videos) ==
    IF videos = <<>> THEN 0
    ELSE Head(videos).places_count + CountSum(Tail(videos))

\* C26: after an ingest request (the only one on its session), the videos of
\* the session are exactly the videos of its response, in the same order,
\* each with places_count equal to the number of places added for it, and
\* total_places is the sum of those counts; a video whose extraction failed
\* added neither a video nor places.
C26_IngestAdds ==
    \A k \in Ingests :
        (/\ reqs[k].pc = "done"
         /\ \A k2 \in Ingests : reqs[k2].session = reqs[k].session => k2 = k) =>
            LET q == reqs[k]
                videos == objs[q.session].videos
                places == objs[q.session].places
            IN  /\ q.success_videos = [j \in 1..Len(videos) |-> j]
                /\ CountSum(videos) = Len(places)
                /\ q.total_places = Len(places)

\* C27: update_place_preference answers 404 when the session id is absent
\* or expired and when the place id is not among the session's places, and
\* then changes no place and refreshes no last_activity; on a live session
\* with the place it answers 200, returns the updated place and refreshes
\* last_activity.
C27_PreferenceOutcome ==
    ret.op = "update_place_preference" =>
        /\ ~ret.arg.found =>
              /\ ret.val = 404
              /\ \A r \in Refs :
                    /\ objs[r].places = ret.arg.before[r].places
                    /\ objs[r].last_activity = ret.arg.before[r].last_activity
        /\ ret.arg.found =>
              /\ ret.val = 200
              /\ ret.arg.returned # <<>>
              /\ \A r \in Refs :
                    objs[r].session_id = ret.arg.session_id =>
                        objs[r].last_activity = now

\* C28: under any interleaving of chat requests a chat history has even
\* length and alternates user, assistant; a user message references no place
\* and the assistant message after it carries exactly the ids the agent
\* returned for the turn.
C28_Alternating ==
    /\ \A r \in Refs :
          LET h == objs[r].chat_history
          IN  /\ Len(h) % 2 = 0
              /\ \A i \in 1..Len(h) :
                    /\ h[i].role = IF i % 2 = 1 THEN "user" ELSE "assistant"
                    /\ i % 2 = 1 => h[i].places_referenced = <<>>
    /\ \A k \in Chats :
          reqs[k].pc = "llm" =>
              \A response \in ChatResponses :
                  LET q == reqs[k]
                      turn == chat_with_agent(objs[q.session], q.message, response)
                      h == chat_resume(_sessions, objs, q, response, now)
                              .objs[q.session].chat_history
                  IN  turn.raised = "none" =>
                          /\ Len(h) = Len(objs[q.session].chat_history) + 2
                          /\ h[Len(h) - 1].content = Content(q.message, 0, <<>>)
                          /\ h[Len(h)].content = turn.reply
                          /\ h[Len(h)].places_referenced
                                = turn.referenced_place_ids

\* A chat has just stored its exchange in a session with a place, after a
\* search that referenced the place.
C28_Witness ==
    /\ ret.op = "chat"
    /\ reqs[ret.arg].status = 200
    /\ Len(objs[reqs[ret.arg].session].chat_history) = 2
    /\ objs[reqs[ret.arg].session].chat_history[2].places_referenced # <<>>

\* The title process_video gives a video before its extraction.
Placeholder(video) == video.title = "Video " \o video.video_id

C30_DistinctVideos ==
    \A r \in Refs :
        \A i, j \in 1..Len(objs[r].videos) :
            objs[r].videos[i].video_id = objs[r].videos[j].video_id => i = j

====
